---- MODULE Spec2Model ----
(***************************************************************************)
(* Safety-event and speeding-interval delivery pipeline of the bot:        *)
(* the per-minute cron tick (index.ts), the delivery helper                *)
(* sendSafetyAlertWithVideo, the persistent dedup tables (repository.ts)   *)
(* and the sliding-window interval fetcher (samsaraSpeeding.ts).           *)
(* Time is counted in whole minutes.                                       *)
(***************************************************************************)
EXTENDS Integers, Sequences, FiniteSets, TLC

\* ------------------------------------------------------------------ bounds
\* Minutes in one hour of the wall clock.
MinutesPerHour == 60

\* Number of cron callbacks that may be in flight at once.
MaxTicks == 2
\* Wall-clock minute of the initial state and the last minute explored.
StartNow == MinutesPerHour - 1
MaxNow == 61
\* Longest downtime (minutes) of the process between two ticks.
MaxGap == 2
\* The send counter of the history saturates here.
SendsCap == 2
\* Number of vehicles of the fleet.
RosterSize == 201
\* Longest list handed to mergeAndDedupeEvents.
MergeMaxLen == 3

\* ------------------------------------------------------- program constants
SAFETY_LOOKBACK_MINUTES == 60
SAFETY_MEDIA_READY_DELAY_MINUTES == 3
SAFETY_MEDIA_MAX_WAIT_MINUTES == 10
\* SPEEDING_WINDOW_HOURS / SPEEDING_BUFFER_MINUTES / SPEEDING_OVER_THRESHOLD_MPH defaults
windowHours == 12
bufferMinutes == 10
overThresholdMph == 15
\* cleanupOldSentEvents(7)
daysOld == 7
VEHICLES_CACHE_TTL_MINUTES == 10
CHUNK_SIZE == 200
maxPages == 100
MinutesPerDay == 24 * MinutesPerHour

TickIds == 1..MaxTicks
NoRow == [present |-> FALSE]

\* ------------------------------------------------------------ upstream data
\* A safety event as the feed returns it.  eventTime models
\* `ev.time || ev.occurredAt || ev.startTime`: a parseable instant ("ok", at
\* minute `at`), absent ("missing") or an unparseable string ("invalid").
\* occurred is the minute upstream files the event under.  forward/inward/
\* generic are the three download URL fields ("" = absent).  vehicle is
\* vehicle.name; labels is the lower-cased text of the behaviour labels.
SafetyEv(id, vehicle, kind, at, fwd, inw, gen, labels) ==
  [id |-> id, vehicle |-> vehicle, eventTime |-> [kind |-> kind, at |-> at],
   occurred |-> at, forward |-> fwd, inward |-> inw, generic |-> gen,
   labels |-> labels]

\* The events upstream can hold.  Which of them exist is chosen in Init.
SafetyCatalog ==
  { SafetyEv("e-young",   "Truck 105", "ok",      StartNow - 1, "", "", "", "harsh brake"),
    SafetyEv("e-old",     "Truck 105", "ok",      StartNow - 8, "", "", "", "harsh brake"),
    SafetyEv("e-video",   "Truck 105", "ok",      StartNow - 2, "https://fwd", "https://inw", "", "harsh brake"),
    SafetyEv("e-nochat",  "Truck 999", "ok",      StartNow - 1, "", "", "", "harsh brake"),
    SafetyEv("e-notime",  "Truck 105", "missing", StartNow - 2, "", "", "", "harsh brake"),
    SafetyEv("e-badtime", "Truck 105", "invalid", StartNow - 2, "", "", "", "harsh brake"),
    SafetyEv("e-follow",  "Truck 105", "ok",      StartNow - 9, "", "", "", "following distance") }

\* A speeding interval of the interval feed (flattened, speeds in mph).
Interval(asset, st, en, maxMph, limitMph) ==
  [assetId |-> asset, startTime |-> st, endTime |-> en,
   maxSpeedMph |-> maxMph, speedLimitMph |-> limitMph]

IntervalCatalog ==
  { Interval("V1", StartNow - 5, StartNow - 4, 80, 55),
    Interval("V9", StartNow - 5, StartNow - 4, 80, 55),
    Interval("V1", StartNow - 8, StartNow - 7, 60, 55) }

\* The roster in the order upstream lists it: V1 first, V9 right after the
\* first CHUNK_SIZE vehicles, vehicles without intervals around them.
Roster ==
  [i \in 1..RosterSize |->
     IF i = 1 THEN "V1" ELSE IF i = CHUNK_SIZE + 1 THEN "V9" ELSE "F" \o ToString(i)]
\* Vehicle roster of the telemetry API (id -> name) and the Truck table of the
\* routing store (vehicle name -> chat id; 0 = no chat).
VehicleName(assetId) == IF assetId = "V1" THEN "Truck 105" ELSE "Truck 999"
ChatOfTruck(name) == IF name = "Truck 105" THEN 1001 ELSE 0

\* ------------------------------------------------------------- transport
Ok == [ok |-> TRUE, code |-> 0, msg |-> ""]
Err(code, msg) == [ok |-> FALSE, code |-> code, msg |-> msg]
\* Telegram errors: error_code and description.
TransportErrors ==
  { Err(400, "Bad Request: wrong file identifier/HTTP URL specified"),
    Err(403, "Forbidden: bot was blocked by the user"),
    Err(401, "Unauthorized"),
    Err(0,   "failed to fetch") }
Outcomes == {Ok} \cup TransportErrors

\* String.prototype.toLowerCase on the error descriptions above.
toLowerCase(s) ==
  CASE s = "Bad Request: wrong file identifier/HTTP URL specified"
         -> "bad request: wrong file identifier/http url specified"
    [] s = "Forbidden: bot was blocked by the user"
         -> "forbidden: bot was blocked by the user"
    [] s = "Unauthorized" -> "unauthorized"
    [] OTHER -> s

\* String.prototype.includes on the lower-cased descriptions.
includes(s, needle) ==
  CASE s = "bad request: wrong file identifier/http url specified"
         -> needle \in {"bad request", "file"}
    [] s = "failed to fetch" -> needle = "fetch"
    [] OTHER -> FALSE

FirstNonEmpty(a, b, c) == IF a # "" THEN a ELSE IF b # "" THEN b ELSE c

\* One external call of a delivery: op is sendVideo, sendMessage or download,
\* via is url, stream, text or file, res is what it returned or threw.
Call(op, via, res) == [op |-> op, via |-> via, ok |-> res.ok, res |-> res]
DownloadError == Err(0, "download failed")

\* What the lookup query of the media resolver comes to: the request fails
\* (or its body cannot be searched), no record matches by id or by time, the
\* matched record holds no video URL, the matched record holds one.
MediaLookups == {"error", "nomatch", "nourl", "found"}
LookupUrl == "https://lookup"

\* Mutant: a matched record counts as a video even without a URL in it.
fetchSafetyEventMedia_anyMatch(ev, lookup) ==
  IF ev.eventTime.kind # "ok" THEN ""
  ELSE IF lookup \in {"found", "nourl"} THEN LookupUrl ELSE ""

\* fetchSafetyEventMedia: needs vehicle.id and a time; every error (an
\* unparseable time makes toISOString throw, the request fails) is caught and
\* gives no URL, as do an empty answer and a match without URL fields.
fetchSafetyEventMedia(ev, lookup) ==
  IF ev.eventTime.kind # "ok" THEN ""
  ELSE IF lookup = "found" THEN LookupUrl ELSE ""

\* Mutant: only error code 400 counts as a fetch error.
shouldFallback_only400(e) == e.code = 400

\* Mutant: every failure of the URL send is answered with a download.
shouldFallback_always(e) == TRUE

\* shouldFallback of sendSafetyAlertWithVideo.
shouldFallback(e) ==
  \/ e.code = 400
  \/ e.code = 403
  \/ includes(toLowerCase(e.msg), "bad request")
  \/ includes(toLowerCase(e.msg), "file")
  \/ includes(toLowerCase(e.msg), "fetch")

\* What one invocation returns ({success, videoUrl, error}), with the transport
\* and download calls it made, in order.  thrown: an exception left the helper
\* instead of a return value.
Result(success, videoUrl, error, calls) ==
  [success |-> success, videoUrl |-> videoUrl, error |-> error, calls |-> calls,
   thrown |-> FALSE, tempFile |-> "none"]
Thrown(calls) ==
  [success |-> FALSE, videoUrl |-> "", error |-> "EXCEPTION", calls |-> calls,
   thrown |-> TRUE, tempFile |-> "none"]

\* Mutant: the temporary file is never removed.
unlinkSync_skipped(exists, ok) ==
  [tempFile |-> IF exists THEN "left" ELSE "none", threw |-> FALSE]

\* `if (fs.existsSync(tempFile)) fs.unlinkSync(tempFile)`: what becomes of the
\* temporary file ("none": there was none, "deleted", "left") and whether
\* unlinkSync threw.  ok says the file system lets the file be removed.
unlinkSync(exists, ok) ==
  IF ~exists THEN [tempFile |-> "none", threw |-> FALSE]
  ELSE IF ok THEN [tempFile |-> "deleted", threw |-> FALSE]
  ELSE [tempFile |-> "left", threw |-> TRUE]

\* The invocation r ends with the temporary file in state u: it returns r, or
\* the exception of unlinkSync leaves the helper after the calls made so far.
WithTemp(r, u, callsSoFar) ==
  IF u.threw THEN [Thrown(callsSoFar) EXCEPT !.tempFile = u.tempFile]
  ELSE [r EXCEPT !.tempFile = u.tempFile]

\* The URL the helper resolves: the event's own fields, else the media lookup.
resolveVideoUrl(ev, lookup) ==
  LET inline == FirstNonEmpty(ev.forward, ev.inward, ev.generic)
  IN IF inline # "" THEN inline ELSE fetchSafetyEventMedia(ev, lookup)

\* The text-only fallback after a failed video attempt.
TextAfterVideo(videoUrl, o, before, videoError) ==
  IF o.text.ok
    THEN Result(TRUE, videoUrl, videoError, Append(before, Call("sendMessage", "text", o.text)))
    ELSE Result(FALSE, "", o.text.msg, Append(before, Call("sendMessage", "text", o.text)))

\* sendSafetyAlertWithVideo(event, chatId, caption, dryRun, {allowTextIfNoVideo}).
\* o gives the outcome of each external call the helper may make:
\* o.lookup (media lookup URL), o.urlSend, o.download (BOOLEAN), o.stream, o.text,
\* o.partial (BOOLEAN: a failed download had already created the file),
\* o.unlink (BOOLEAN: fs.unlinkSync of the temporary file succeeds),
\* o.unlinkAgain (BOOLEAN: so does the cleanup of the catch block when the
\* unlinkSync of the try block has thrown).
sendSafetyAlertWithVideo(ev, dryRun, allowTextIfNoVideo, o) ==
  LET videoUrl == resolveVideoUrl(ev, o.lookup)
      c1 == <<Call("sendVideo", "url", o.urlSend)>>
      c2 == Append(c1, Call("download", "file", IF o.download THEN Ok ELSE DownloadError))
      c3 == Append(c2, Call("sendVideo", "stream", o.stream))
  IN
  IF dryRun THEN Result(TRUE, videoUrl, "", <<>>)
  ELSE IF videoUrl = "" THEN
    IF ~allowTextIfNoVideo THEN Result(FALSE, "", "NO_VIDEO_YET", <<>>)
    ELSE IF o.text.ok
      THEN Result(TRUE, "", "", <<Call("sendMessage", "text", o.text)>>)
      ELSE Result(FALSE, "", o.text.msg, <<Call("sendMessage", "text", o.text)>>)
  ELSE IF o.urlSend.ok THEN
    Result(TRUE, videoUrl, "", c1)
  ELSE IF ~shouldFallback(o.urlSend) THEN
    TextAfterVideo(videoUrl, o, c1, o.urlSend.msg)
  ELSE IF ~o.download THEN
    \* downloadVideoToTemp removes a partially written file in its catch block.
    WithTemp(TextAfterVideo(videoUrl, o, c2, "Download failed"),
             unlinkSync(o.partial, o.unlink), c2)
  ELSE IF o.stream.ok THEN
    \* unlinkSync sits inside the try: when it throws, the catch block runs.
    \* Its own cleanup throws out of the helper, or it passes and the
    \* text-only send follows the video that was delivered.
    LET first == unlinkSync(TRUE, o.unlink)
    IN IF ~first.threw THEN WithTemp(Result(TRUE, videoUrl, "", c3), first, c3)
       ELSE WithTemp(TextAfterVideo(videoUrl, o, c3, "unlink failed"),
                     unlinkSync(TRUE, o.unlinkAgain), c3)
  ELSE
    \* The catch block removes the file before the text-only fallback.
    WithTemp(TextAfterVideo(videoUrl, o, c3, o.stream.msg),
             unlinkSync(TRUE, o.unlink), c3)

\* ------------------------------------------------------------- repository
\* Every repository function wraps its query in try/catch; `fail` says the
\* query threw.

findChatByVehicleName(vehicleName, fail) ==
  IF vehicleName = "" \/ fail THEN 0 ELSE ChatOfTruck(vehicleName)

LogRow(chatId, videoUrl) ==
  [present |-> TRUE, sentToChatId |-> chatId, videoUrl |-> videoUrl]

logSafetyEvent(log, ev, chatId, videoUrl, fail) ==
  IF fail THEN log ELSE [log EXCEPT ![ev.id] = LogRow(chatId, videoUrl)]

logUnifiedEvent(log, event, chatId, videoUrl, fail) ==
  IF fail THEN log ELSE [log EXCEPT ![event.id] = LogRow(chatId, videoUrl)]

\* Mutant: the lookup never finds a row.
isEventProcessed_never(log, eventId, fail) == FALSE

\* Mutant: a lookup that fails reports the event as processed.
isEventProcessed_failClosed(log, eventId, fail) ==
  IF fail THEN TRUE ELSE log[eventId].present

isEventProcessed(log, eventId, fail) ==
  IF fail THEN FALSE ELSE log[eventId].present

\* Mutant: the error of a failed upsert is thrown on to the caller.
upsertThrows_rethrow(fail) == fail

\* The try/catch around the upsert in logSafetyEvent, logUnifiedEvent and
\* markEventSent: whether a failed upsert throws to the caller.
upsertThrows(fail) == FALSE

isEventSent(sent, eventId, fail) ==
  IF fail THEN FALSE ELSE sent[eventId].present

markEventSent(sent, eventId, eventType, at, fail) ==
  IF fail THEN sent
  ELSE [sent EXCEPT ![eventId] = [present |-> TRUE, type |-> eventType, sentAt |-> at]]

cleanupOldSentEvents(sent, days, at, fail) ==
  IF fail THEN sent
  ELSE [k \in DOMAIN sent |->
          IF sent[k].present /\ sent[k].sentAt < at - days * MinutesPerDay
            THEN NoRow ELSE sent[k]]

\* ------------------------------------------------------------- normalizer
toISOString(minute) == ToString(minute)

normalizeSpeedingInterval(interval) ==
  [source |-> "speeding",
   id |-> "speeding:" \o interval.assetId \o ":" \o toISOString(interval.startTime)
            \o ":" \o toISOString(interval.endTime),
   type |-> "severe_speeding",
   occurredAt |-> interval.startTime,
   endedAt |-> interval.endTime,
   assetId |-> interval.assetId,
   vehicleName |-> ""]

RECURSIVE normalizeSpeedingIntervals(_)
normalizeSpeedingIntervals(intervals) ==
  IF intervals = <<>> THEN <<>>
  ELSE <<normalizeSpeedingInterval(Head(intervals))>>
         \o normalizeSpeedingIntervals(Tail(intervals))

\* Mutant: the key leaves out the end of the interval.
getSpeedingIntervalDedupKey_noEnd(interval) ==
  interval.assetId \o ":" \o toISOString(interval.startTime)

getSpeedingIntervalDedupKey(interval) ==
  interval.assetId \o ":" \o toISOString(interval.startTime)
    \o ":" \o toISOString(interval.endTime)

\* ------------------------------------------------------- relevance filter
ALLOWED_KEYWORDS ==
  {"speed", "speeding", "max speed", "severe speed", "severe speeding",
   "speeding (manual)", "harsh brake", "harsh braking", "yield", "red light",
   "rolling stop"}
BLOCKED_KEYWORDS == {"following distance", "followingdistance"}

\* text.includes(kw) for the label texts of the catalog.
labelIncludes(text, kw) ==
  CASE text = "harsh brake" -> kw = "harsh brake"
    [] text = "following distance" -> kw = "following distance"
    [] OTHER -> FALSE

isRelevantEvent(ev) ==
  /\ ev.labels # ""
  /\ ~(\E kw \in BLOCKED_KEYWORDS : labelIncludes(ev.labels, kw))
  /\ \E kw \in ALLOWED_KEYWORDS : labelIncludes(ev.labels, kw)

\* ------------------------------------------------------------------- state
VARIABLES
  now,            \* wall clock, minutes
  feed,           \* what upstream holds: [safety, intervals], in feed order
  storeFaults,    \* which queries of the persistent store may throw
  safetyEventLog, \* SafetyEventLog table: samsaraEventId -> row
  sentEvent,      \* SentEvent table: id -> row
  vehiclesCache,  \* in-memory roster cache: [loaded, expiresAt]
  ticks,          \* the cron callbacks in flight
  sends,          \* history: confirmed transport sends per event id
  step,           \* history: what the last per-event step did
  proc,           \* the process: its status and its environment settings
  pager,          \* fetchSpeedingIntervalsForWindow of one chunk, page by page
  retention,      \* one delivered interval and its ledger row, hour by hour
  search,         \* fetchSpeedingIntervalsInternal: the expanding search
  merger,         \* one call of mergeAndDedupeEvents
  call            \* one call of a normalizer or of a relevance filter

vars == <<now, feed, storeFaults, safetyEventLog, sentEvent, vehiclesCache,
          ticks, sends, step, proc, pager, retention, search, merger,
          call>>
tickVars == <<now, feed, storeFaults, safetyEventLog, sentEvent, vehiclesCache,
              ticks, sends, step, proc>>
\* State of the studies of single functions, untouched by the ticks.
sideVars == <<pager, retention, search, merger, call>>

Ev(id) == CHOOSE e \in SafetyCatalog : e.id = id
IvMapped == Interval("V1", StartNow - 5, StartNow - 4, 80, 55)
IvUnmapped == Interval("V9", StartNow - 5, StartNow - 4, 80, 55)
IvMild == Interval("V1", StartNow - 8, StartNow - 7, 60, 55)

\* The upstream contents explored: the safety feed and the interval feed, each
\* in the order the API returns it.
Feeds ==
  { [safety |-> <<Ev("e-young")>>, intervals |-> <<>>],
    [safety |-> <<Ev("e-old")>>, intervals |-> <<>>],
    [safety |-> <<Ev("e-nochat")>>, intervals |-> <<>>],
    [safety |-> <<Ev("e-notime")>>, intervals |-> <<>>],
    [safety |-> <<Ev("e-badtime")>>, intervals |-> <<>>],
    [safety |-> <<Ev("e-follow"), Ev("e-old")>>, intervals |-> <<IvMild>>],
    [safety |-> <<>>, intervals |-> <<IvMild, IvMapped>>],
    [safety |-> <<>>, intervals |-> <<IvUnmapped, IvMapped>>],
    [safety |-> <<Ev("e-video")>>, intervals |-> <<IvUnmapped>>] }

StaleKey == "speeding:V1:stale"
SafetyIds == { e.id : e \in SafetyCatalog }
SpeedingIds == { normalizeSpeedingInterval(i).id : i \in IntervalCatalog }
LogKeys == SafetyIds \cup SpeedingIds
SentKeys == SpeedingIds \cup {StaleKey}

IdleTick == [pc |-> "idle", now |-> 0, safetyQ |-> <<>>, speedQ |-> <<>>,
             chatId |-> 0, allowTextIfNoVideo |-> FALSE, vehicleName |-> ""]
NoStep == [tick |-> 0, id |-> "", source |-> "", phase |-> "none",
           outcome |-> "none", calls |-> <<>>, hit |-> FALSE, age |-> 0,
           ageKnown |-> FALSE, hasUrl |-> FALSE, wroteLog |-> FALSE,
           wroteLedger |-> FALSE, tempFile |-> "none", chunks |-> 0,
           chunkOk |-> <<>>, newToPost |-> <<>>, lookup |-> "none",
           readFailed |-> FALSE, afterFailure |-> FALSE,
           writeFailed |-> FALSE, routedBy |-> ""]

\* pc: "idle" (not called), "loop" (at the head of the while loop), "hung"
\* (awaiting a request that is never answered), "returned", "threw".
\* requests counts the page requests issued, intervals the intervals gathered
\* (allIntervals), served the intervals upstream put on the pages it answered.
\* cursor is the local of that name (0 = undefined, k = the cursor that came
\* with page k), asked the cursor the last request carried, last the answer
\* to the last request.
IdlePager == [pc |-> "idle", hasMore |-> FALSE, pageCount |-> 0, requests |-> 0,
              intervals |-> 0, served |-> 0, cursor |-> 0, asked |-> 0,
              last |-> "none"]

\* pc: "idle" or "running"; windowHours: the configured SPEEDING_WINDOW_HOURS;
\* at: the minute of the last tick; sent: the SentEvent table; sends: how
\* often the interval was delivered.
IdleRetention == [pc |-> "idle", windowHours |-> windowHours, at |-> StartNow,
                  sent |-> [k \in SentKeys |-> NoRow], sends |-> 0]

\* pc: "idle", "strategies" (at the head of the loop over the expansion
\* strategies of one chunk), "hung", "returned".  base: the window of the
\* caller; chunk: index of the chunk at work; strategy: index of the next
\* expansion strategy; found: the loop was left by `break`; queries: the
\* window queries issued for this chunk, each with its answer;
\* chunkRecords / chunkIntervals: the locals of the chunk; total: intervals
\* gathered over the chunks done.
IdleSearch == [pc |-> "idle", base |-> [startTime |-> 0, endTime |-> 0],
               chunk |-> 0, strategy |-> 0, found |-> FALSE, queries |-> <<>>,
               chunkRecords |-> 0, chunkIntervals |-> 0, total |-> 0]

\* pc: "idle", "called", "returned"; input: the argument; output: the result.
IdleMerger == [pc |-> "idle", input |-> <<>>, output |-> <<>>]

\* fn: the function called ("none" before the call); input: its argument;
\* at: the clock at the call; output: what it returned.
IdleCall == [fn |-> "none", input |-> <<>>, at |-> 0, output |-> <<>>]

\* storeFaults is "none" (every query of the store succeeds), "reads" (the
\* lookups isEventProcessed / isEventSent may fail), "writes" (the upserts and
\* the purge may fail) or "all" (any query may).
Faults == IF storeFaults = "all" THEN BOOLEAN ELSE {FALSE}
ReadFaults == IF storeFaults \in {"reads", "all"} THEN BOOLEAN ELSE {FALSE}
WriteFaults == IF storeFaults \in {"writes", "all"} THEN BOOLEAN ELSE {FALSE}

\* The settings the process reads from its environment at start.
MAX_EVENTS_PER_CRON_RUN == 25
\* SAMSARA_ASSET_IDS is the list of ids the variable holds, <<>> when unset.
Env(dryRunMode, maxEvents, assetIds) ==
  [DRY_RUN_MODE |-> dryRunMode, MAX_EVENTS_PER_CRON_RUN |-> maxEvents,
   SAMSARA_ASSET_IDS |-> assetIds]
DefaultEnv == Env(FALSE, MAX_EVENTS_PER_CRON_RUN, <<>>)

InitWith(faulty, feeds, env) ==
  /\ now = StartNow
  /\ feed \in feeds
  /\ storeFaults = faulty
  /\ safetyEventLog = [k \in LogKeys |-> NoRow]
  /\ sentEvent = [k \in SentKeys |->
        IF k = StaleKey
          THEN [present |-> TRUE, type |-> "severe_speeding",
                sentAt |-> StartNow - daysOld * MinutesPerDay]
          ELSE NoRow]
  /\ vehiclesCache = [loaded |-> FALSE, expiresAt |-> 0]
  /\ ticks = [t \in TickIds |-> IdleTick]
  /\ sends = [k \in LogKeys |-> 0]
  /\ step = NoStep
  /\ proc = [status |-> "running", env |-> env]
  /\ pager = IdlePager
  /\ retention = IdleRetention
  /\ search = IdleSearch
  /\ merger = IdleMerger
  /\ call = IdleCall

Init == InitWith("none", Feeds, DefaultEnv)

\* ------------------------------------------------------------ tick helpers
NextPc(safetyQ, speedQ) ==
  IF safetyQ # <<>> THEN "safety" ELSE IF speedQ # <<>> THEN "speeding" ELSE "end"

\* What the safety-events endpoint does with one request: it answers with the
\* events, the request fails, it answers 200 with an object that holds neither
\* `data` nor `safetyEvents`, or it never answers.
SafetyResponses == {"ok", "error", "malformed", "silent"}

\* getSafetyEventsInWindow({from, to}, 200) for a request that is answered:
\* [] when the request fails; `raw?.data || raw?.safetyEvents || raw || []`
\* hands a malformed body back as it is, which is not an array.
getSafetyEventsInWindow(from, to, response) ==
  LET InWindow(e) == from <= e.occurred /\ e.occurred <= to
  IN CASE response = "ok" -> [isArray |-> TRUE, events |-> SelectSeq(feed.safety, InWindow)]
       [] response = "error" -> [isArray |-> TRUE, events |-> <<>>]
       [] OTHER -> [isArray |-> FALSE, events |-> <<>>]

\* Mutant: an error of the tick leaves the callback and ends the process.
tickBoundary_rethrow(threw) == IF threw THEN "crashed" ELSE "running"

\* The try/catch of the cron callback: an error thrown by
\* checkAndNotifySafetyEvents or by the purge is logged, the callback returns.
tickBoundary(threw) == "running"

\* getVehicleNameById: null ("") unless the cache is loaded and not expired.
getVehicleNameById(cache, assetId, at) ==
  IF ~cache.loaded \/ cache.expiresAt <= at THEN "" ELSE VehicleName(assetId)

\* getAllVehicleAssetIds: the ids of SAMSARA_ASSET_IDS when it is set, with
\* the cache left as it is; else a cache hit, or a roster fetch that fills the
\* cache when it returns vehicles.
getAllVehicleAssetIds(cache, at, rosterOk, envOverride) ==
  IF Len(envOverride) > 0 THEN [ids |-> envOverride, cache |-> cache]
  ELSE IF cache.loaded /\ cache.expiresAt > at
    THEN [ids |-> Roster, cache |-> cache]
  ELSE IF rosterOk
    THEN [ids |-> Roster,
          cache |-> [loaded |-> TRUE, expiresAt |-> at + VEHICLES_CACHE_TTL_MINUTES]]
  ELSE [ids |-> <<>>, cache |-> cache]

\* assetIds.slice(i, i + CHUNK_SIZE) for i = 0, CHUNK_SIZE, ...
chunksOf(assetIds) ==
  [k \in 1..((Len(assetIds) + CHUNK_SIZE - 1) \div CHUNK_SIZE) |->
     SubSeq(assetIds, (k - 1) * CHUNK_SIZE + 1,
            IF k * CHUNK_SIZE < Len(assetIds) THEN k * CHUNK_SIZE ELSE Len(assetIds))]
\* The chunks of the whole roster, and the chunk each vehicle falls into.
RosterChunks == chunksOf(Roster)
MaxChunks == Len(RosterChunks)
ChunkIndex ==
  [a \in { Roster[i] : i \in 1..RosterSize } |->
     CHOOSE k \in 1..MaxChunks : \E j \in 1..Len(RosterChunks[k]) : RosterChunks[k][j] = a]

\* Mutant: the first chunk that fails ends the chunk loop.
survivingChunks_untilFailure(n, chunkOk) ==
  { k \in 1..n : \A j \in 1..k : chunkOk[j] }

\* The chunks whose intervals reach the result: each chunk is fetched inside
\* its own try/catch, a failed one is logged and the loop goes on.
survivingChunks(n, chunkOk) == { k \in 1..n : chunkOk[k] }

\* The window of the scheduled fetch: from windowHours and bufferMinutes before
\* now to one minute after now.
slidingWindow(at, wHours, bMinutes) ==
  [startTime |-> at - (wHours * MinutesPerHour + bMinutes), endTime |-> at + 1]

\* fetchSpeedingIntervalsWithSlidingWindow: the intervals of the window, chunk
\* by chunk, whose excess over the limit reaches the threshold and whose key
\* is not in SentEvent.  chunkOk[k] says the request of chunk k succeeds.
\* assetIds is the whole roster or empty (getAllVehicleAssetIds); the slices of
\* the roster are RosterChunks.
fetchSpeedingIntervalsWithSlidingWindow(at, assetIds, chunkOk, sent, fail) ==
  LET windowStart == slidingWindow(at, windowHours, bufferMinutes).startTime
      windowEnd == slidingWindow(at, windowHours, bufferMinutes).endTime
      nChunks == IF assetIds = Roster THEN MaxChunks ELSE Len(chunksOf(assetIds))
      alive == survivingChunks(nChunks, chunkOk)
      InChunk(i, k) == assetIds = Roster /\ ChunkIndex[i.assetId] = k
      InWindow(i) == windowStart <= i.startTime /\ i.startTime <= windowEnd
      Severe(i) == i.maxSpeedMph - i.speedLimitMph >= overThresholdMph
      New(i) == ~isEventSent(sent, "speeding:" \o getSpeedingIntervalDedupKey(i), fail)
      OfChunk(k) == LET Mine(i) == InChunk(i, k) /\ InWindow(i)
                    IN SelectSeq(feed.intervals, Mine)
      RECURSIVE Gather(_)
      Gather(k) == IF k > nChunks THEN <<>>
                   ELSE (IF k \in alive THEN OfChunk(k) ELSE <<>>) \o Gather(k + 1)
  IN SelectSeq(SelectSeq(Gather(1), Severe), New)

\* Age of a safety event at the tick's `now`.
ageKnown(ev) == ev.eventTime.kind = "ok"
eventAgeMinutes(ev, at) == at - ev.eventTime.at

TooFresh(ev, at) ==
  ageKnown(ev) /\ eventAgeMinutes(ev, at) < SAFETY_MEDIA_READY_DELAY_MINUTES

\* Mutant: text without video only strictly after the giveup threshold.
allowTextIfNoVideo_strict(ev, at) ==
  \/ ev.eventTime.kind = "missing"
  \/ ageKnown(ev) /\ eventAgeMinutes(ev, at) > SAFETY_MEDIA_MAX_WAIT_MINUTES

allowTextIfNoVideo(ev, at) ==
  \/ ev.eventTime.kind = "missing"
  \/ ageKnown(ev) /\ eventAgeMinutes(ev, at) >= SAFETY_MEDIA_MAX_WAIT_MINUTES

\* How the safety loop classifies what the helper returned (or threw).
sendOutcome(result, allowText) ==
  IF result.thrown THEN "exception"
  ELSE IF result.success /\ (result.videoUrl # "" \/ allowText) THEN "sent"
  ELSE IF ~result.success /\ result.error = "NO_VIDEO_YET" /\ ~allowText THEN "wait"
  ELSE "failed"

\* The SafetyEventLog after the safety loop handled `outcome` for ev.
logAfterSafetySend(log, ev, chatId, result, outcome, fail) ==
  CASE outcome = "sent" -> logSafetyEvent(log, ev, chatId, result.videoUrl, fail)
    [] outcome = "wait" -> log
    [] OTHER -> logSafetyEvent(log, ev, chatId, "", fail)

\* Mutant: a row of the audit log suppresses the delivery as well.
alreadySent_orLogged(sent, log, eventId, fail) ==
  isEventSent(sent, eventId, fail) \/ isEventProcessed(log, eventId, fail)

\* The dedup check at the head of the speeding loop, given both tables:
\* `const alreadySent = await isEventSent(event.id)`.
alreadySent(sent, log, eventId, fail) == isEventSent(sent, eventId, fail)

\* Mutant: the send is not followed by a ledger write.
ledgerAfterSpeedingSend_never(sent, event, ok, at, fail) == sent

\* Mutant: the catch block marks the event as well.
ledgerAfterSpeedingSend_always(sent, event, ok, at, fail) ==
  markEventSent(sent, event.id, event.type, at, fail)

\* The SentEvent table after the speeding loop's send returned (ok) or threw.
ledgerAfterSpeedingSend(sent, event, ok, at, fail) ==
  IF ok THEN markEventSent(sent, event.id, event.type, at, fail) ELSE sent

\* Mutant: an exception in one event's delivery ends the tick's loops.
afterDelivery_abort(threw, safetyRest, speedRest) ==
  IF threw THEN [pc |-> "end", safetyQ |-> <<>>, speedQ |-> <<>>]
  ELSE [pc |-> NextPc(safetyRest, speedRest), safetyQ |-> safetyRest,
        speedQ |-> speedRest]

\* Where the tick stands after one event's delivery, whether the delivery
\* returned or threw: the per-event try/catch ends the iteration and the
\* loop goes on with the remaining events.
afterDelivery(threw, safetyRest, speedRest) ==
  [pc |-> NextPc(safetyRest, speedRest), safetyQ |-> safetyRest,
   speedQ |-> speedRest]

RECURSIVE Confirmed(_)
Confirmed(calls) ==
  IF calls = <<>> THEN 0
  ELSE (IF Head(calls).ok /\ Head(calls).op \in {"sendVideo", "sendMessage"} THEN 1 ELSE 0)
         + Confirmed(Tail(calls))

Bump(count, id, n) ==
  [count EXCEPT ![id] = IF @ + n > SendsCap THEN SendsCap ELSE @ + n]

StreamOutcomes == {Ok, Err(400, "Bad Request: wrong file identifier/HTTP URL specified")}
TextOutcomes == {Ok, Err(403, "Forbidden: bot was blocked by the user")}
SendOutcomes ==
  [lookup : MediaLookups, urlSend : Outcomes, download : BOOLEAN,
   partial : BOOLEAN, stream : StreamOutcomes, text : TextOutcomes,
   unlink : BOOLEAN, unlinkAgain : BOOLEAN]

\* What one call of the delivery helper from the safety loop (dryRun is the
\* literal false there) can return for an event, over everything the media
\* lookup, the transport and the file system can answer.
SendRuns ==
  [ev \in SafetyCatalog, allowText \in BOOLEAN |->
     { [result |-> sendSafetyAlertWithVideo(ev, FALSE, allowText, o),
        hasUrl |-> resolveVideoUrl(ev, o.lookup) # "",
        lookup |-> IF FirstNonEmpty(ev.forward, ev.inward, ev.generic) = ""
                     THEN o.lookup ELSE "none"] : o \in SendOutcomes }]

\* ----------------------------------------------------------------- actions
\* The cron expression '* * * * *' fires the callback at every minute, whether
\* or not an earlier callback has returned.  The callback starts
\* checkAndNotifySafetyEvents, which reads the clock and awaits both fetches.
CronFire(t) ==
  /\ proc.status = "running"
  /\ ticks[t].pc = "idle"
  /\ \A u \in TickIds : u < t => ticks[u].pc # "idle"
  /\ now < MaxNow
  /\ now' = now + 1
  /\ \E response \in SafetyResponses, rosterOk \in BOOLEAN,
        chunkOk \in [1..MaxChunks -> BOOLEAN], fRead \in ReadFaults :
       LET at == now + 1
           safetyEvents == getSafetyEventsInWindow(at - SAFETY_LOOKBACK_MINUTES, at, response)
           roster == getAllVehicleAssetIds(vehiclesCache, at, rosterOk,
                                          proc.env.SAMSARA_ASSET_IDS)
           newToPost == fetchSpeedingIntervalsWithSlidingWindow(
                          at, roster.ids, chunkOk, sentEvent, fRead)
           safetyQ == SelectSeq(safetyEvents.events, isRelevantEvent)
           speedQ == normalizeSpeedingIntervals(newToPost)
           base == [NoStep EXCEPT !.tick = t, !.phase = "fetch",
                                  !.chunks = IF roster.ids = Roster THEN MaxChunks ELSE 0,
                                  !.chunkOk = chunkOk, !.newToPost = speedQ,
                                  !.afterFailure =
                                     (step.phase = "fetch" /\ step.outcome = "exception")]
       IN /\ vehiclesCache' = roster.cache
          /\ IF response = "silent" THEN
               \* axios.get has no timeout: Promise.all never settles
               /\ ticks' = [ticks EXCEPT ![t] = [IdleTick EXCEPT !.pc = "hung"]]
               /\ step' = [base EXCEPT !.outcome = "hung"]
               /\ proc' = proc
             ELSE IF ~safetyEvents.isArray THEN
               \* safetyEvents.filter is not a function: the tick throws
               /\ ticks' = [ticks EXCEPT ![t] = IdleTick]
               /\ step' = [base EXCEPT !.outcome = "exception"]
               /\ proc' = [proc EXCEPT !.status = tickBoundary(TRUE)]
             ELSE
               /\ ticks' = [ticks EXCEPT ![t] =
                      [IdleTick EXCEPT !.pc = NextPc(safetyQ, speedQ), !.now = at,
                                       !.safetyQ = safetyQ, !.speedQ = speedQ]]
               /\ step' = base
               /\ proc' = proc
  /\ UNCHANGED <<feed, storeFaults, safetyEventLog, sentEvent, sends, sideVars>>

\* Head of the safety loop: dedup check, chat lookup, media grace period.
SafetyExamine(t) ==
  /\ proc.status = "running"
  /\ ticks[t].pc = "safety"
  /\ \E fRead \in ReadFaults, fChat \in Faults, fWrite \in WriteFaults :
       LET tk == ticks[t]
           ev == Head(tk.safetyQ)
           rest == Tail(tk.safetyQ)
           alreadyProcessed == isEventProcessed(safetyEventLog, ev.id, fRead)
           chatId == findChatByVehicleName(ev.vehicle, fChat)
           base == [NoStep EXCEPT !.tick = t, !.id = ev.id, !.source = "safety",
                                  !.phase = "examine",
                                  !.hit = safetyEventLog[ev.id].present,
                                  !.readFailed = fRead,
                                  !.ageKnown = ageKnown(ev),
                                  !.age = eventAgeMinutes(ev, tk.now)]
           moveOn == [ticks EXCEPT ![t] =
                        [tk EXCEPT !.safetyQ = rest, !.pc = NextPc(rest, tk.speedQ)]]
       IN IF alreadyProcessed THEN
            /\ ticks' = moveOn
            /\ step' = [base EXCEPT !.outcome = "skip"]
            /\ UNCHANGED safetyEventLog
          ELSE IF chatId = 0 /\ upsertThrows(fWrite) THEN
            \* outside every try of the loop: the error would end the tick
            /\ ticks' = [ticks EXCEPT ![t] = IdleTick]
            /\ step' = [base EXCEPT !.outcome = "exception", !.writeFailed = TRUE]
            /\ UNCHANGED safetyEventLog
          ELSE IF chatId = 0 THEN
            /\ safetyEventLog' = logSafetyEvent(safetyEventLog, ev, 0, "", fWrite)
            /\ ticks' = moveOn
            /\ step' = [base EXCEPT !.outcome = "nochat",
                                    !.wroteLog = ~fWrite, !.writeFailed = fWrite]
          ELSE IF TooFresh(ev, tk.now) THEN
            /\ ticks' = moveOn
            /\ step' = [base EXCEPT !.outcome = "defer"]
            /\ UNCHANGED safetyEventLog
          ELSE
            /\ ticks' = [ticks EXCEPT ![t] =
                  [tk EXCEPT !.pc = "send", !.chatId = chatId,
                             !.allowTextIfNoVideo = allowTextIfNoVideo(ev, tk.now)]]
            /\ step' = [base EXCEPT !.outcome = "deliver"]
            /\ UNCHANGED safetyEventLog
  /\ UNCHANGED <<now, feed, storeFaults, sentEvent, vehiclesCache, sends, proc, sideVars>>

\* Rest of the safety loop body: the delivery helper and the handling of its
\* result.
SafetySend(t) ==
  /\ proc.status = "running"
  /\ ticks[t].pc = "send"
  /\ \E run \in SendRuns[Head(ticks[t].safetyQ), ticks[t].allowTextIfNoVideo],
        fWrite \in WriteFaults :
       LET tk == ticks[t]
           ev == Head(tk.safetyQ)
           rest == Tail(tk.safetyQ)
           result == run.result
           base == [NoStep EXCEPT !.tick = t, !.id = ev.id, !.source = "safety",
                                  !.phase = "send", !.calls = result.calls,
                                  !.hit = safetyEventLog[ev.id].present,
                                  !.ageKnown = ageKnown(ev),
                                  !.age = eventAgeMinutes(ev, tk.now),
                                  !.hasUrl = run.hasUrl,
                                  !.lookup = run.lookup,
                                  !.tempFile = result.tempFile]
           outcome == sendOutcome(result, tk.allowTextIfNoVideo)
       IN /\ safetyEventLog' =
               logAfterSafetySend(safetyEventLog, ev, tk.chatId, result, outcome, fWrite)
          /\ step' = [base EXCEPT !.outcome = outcome,
                                  !.wroteLog = (outcome # "wait" /\ ~fWrite),
                                  !.writeFailed = (outcome # "wait" /\ fWrite)]
          /\ sends' = Bump(sends, ev.id, Confirmed(result.calls))
          /\ ticks' = [ticks EXCEPT ![t] =
                 LET after == afterDelivery(result.thrown, rest, tk.speedQ)
                 IN [tk EXCEPT !.safetyQ = after.safetyQ, !.speedQ = after.speedQ,
                               !.pc = after.pc,
                               !.chatId = 0, !.allowTextIfNoVideo = FALSE]]
  /\ UNCHANGED <<now, feed, storeFaults, sentEvent, vehiclesCache, proc, sideVars>>

\* Head of the speeding loop: dedup check, vehicle name, chat lookup.
SpeedExamine(t) ==
  /\ proc.status = "running"
  /\ ticks[t].pc = "speeding"
  /\ \E fRead \in ReadFaults, fChat \in Faults, fWrite \in WriteFaults :
       LET tk == ticks[t]
           event == Head(tk.speedQ)
           rest == Tail(tk.speedQ)
           skip == alreadySent(sentEvent, safetyEventLog, event.id, fRead)
           cached == getVehicleNameById(vehiclesCache, event.assetId, now)
           vehicleName == IF event.vehicleName # "" THEN event.vehicleName
                          ELSE IF cached # "" THEN cached ELSE event.assetId
           chatId == findChatByVehicleName(vehicleName, fChat)
           base == [NoStep EXCEPT !.tick = t, !.id = event.id, !.source = "speeding",
                                  !.phase = "examine",
                                  !.hit = sentEvent[event.id].present,
                                  !.readFailed = fRead,
                                  !.routedBy = IF skip THEN "" ELSE vehicleName]
           moveOn == [ticks EXCEPT ![t] =
                        [tk EXCEPT !.speedQ = rest, !.pc = NextPc(<<>>, rest)]]
       IN IF skip THEN
            /\ ticks' = moveOn
            /\ step' = [base EXCEPT !.outcome = "skip"]
            /\ UNCHANGED safetyEventLog
          ELSE IF chatId = 0 /\ upsertThrows(fWrite) THEN
            \* outside the try of the loop: the error would end the tick
            /\ ticks' = [ticks EXCEPT ![t] = IdleTick]
            /\ step' = [base EXCEPT !.outcome = "exception", !.writeFailed = TRUE]
            /\ UNCHANGED safetyEventLog
          ELSE IF chatId = 0 THEN
            /\ safetyEventLog' = logUnifiedEvent(safetyEventLog, event, 0, "", fWrite)
            /\ ticks' = moveOn
            /\ step' = [base EXCEPT !.outcome = "nochat",
                                    !.wroteLog = ~fWrite, !.writeFailed = fWrite]
          ELSE
            /\ ticks' = [ticks EXCEPT ![t] =
                  [tk EXCEPT !.pc = "spsend", !.chatId = chatId,
                             !.vehicleName = vehicleName]]
            /\ step' = [base EXCEPT !.outcome = "deliver"]
            /\ UNCHANGED safetyEventLog
  /\ UNCHANGED <<now, feed, storeFaults, sentEvent, vehiclesCache, sends, proc, sideVars>>

\* Rest of the speeding loop body: the plain-text send, then markEventSent and
\* logUnifiedEvent, or logUnifiedEvent alone in the catch block.
SpeedSend(t) ==
  /\ proc.status = "running"
  /\ ticks[t].pc = "spsend"
  /\ \E o \in TextOutcomes, fMark, fWrite \in WriteFaults :
       LET tk == ticks[t]
           event == Head(tk.speedQ)
           rest == Tail(tk.speedQ)
           calls == <<Call("sendMessage", "text", o)>>
           base == [NoStep EXCEPT !.tick = t, !.id = event.id, !.source = "speeding",
                                  !.phase = "send", !.calls = calls,
                                  !.hit = sentEvent[event.id].present]
       IN /\ sentEvent' = ledgerAfterSpeedingSend(sentEvent, event, o.ok, now, fMark)
          /\ safetyEventLog' = logUnifiedEvent(safetyEventLog, event, tk.chatId, "", fWrite)
          /\ step' = [base EXCEPT !.outcome = IF o.ok THEN "sent" ELSE "failed",
                                  !.wroteLedger = (o.ok /\ ~fMark),
                                  !.wroteLog = ~fWrite,
                                  !.writeFailed = ((o.ok /\ fMark) \/ fWrite)]
          /\ sends' = Bump(sends, event.id, Confirmed(calls))
          /\ ticks' = [ticks EXCEPT ![t] =
                 LET after == afterDelivery(~o.ok, <<>>, rest)
                 IN [tk EXCEPT !.safetyQ = after.safetyQ, !.speedQ = after.speedQ,
                               !.pc = after.pc,
                               !.chatId = 0, !.vehicleName = ""]]
  /\ UNCHANGED <<now, feed, storeFaults, vehiclesCache, proc, sideVars>>

\* checkAndNotifySafetyEvents has returned: the callback reads the clock again
\* and purges the SentEvent table when the minute of the hour is 0.
TickEnd(t) ==
  /\ proc.status = "running"
  /\ ticks[t].pc = "end"
  /\ \E fail \in WriteFaults :
       sentEvent' = IF now % MinutesPerHour = 0
                      THEN cleanupOldSentEvents(sentEvent, daysOld, now, fail)
                      ELSE sentEvent
  /\ ticks' = [ticks EXCEPT ![t] = IdleTick]
  /\ proc' = [proc EXCEPT !.status = tickBoundary(FALSE)]
  /\ UNCHANGED <<now, feed, storeFaults, safetyEventLog, vehiclesCache, sends, step, sideVars>>

\* The process is stopped between two ticks and started again d minutes later:
\* the in-memory roster cache and the callbacks still waiting are lost, the
\* tables are kept.
Restart(d) ==
  /\ \A t \in TickIds : ticks[t].pc \in {"idle", "hung"}
  /\ now + d <= MaxNow
  /\ now' = now + d
  /\ vehiclesCache' = [loaded |-> FALSE, expiresAt |-> 0]
  /\ ticks' = [t \in TickIds |-> IdleTick]
  /\ proc' = [proc EXCEPT !.status = "running"]
  /\ UNCHANGED <<feed, storeFaults, safetyEventLog, sentEvent, sends, step, sideVars>>

Next ==
  \/ \E t \in TickIds : CronFire(t)
  \/ \E t \in TickIds : SafetyExamine(t)
  \/ \E t \in TickIds : SafetySend(t)
  \/ \E t \in TickIds : SpeedExamine(t)
  \/ \E t \in TickIds : SpeedSend(t)
  \/ \E t \in TickIds : TickEnd(t)
  \/ \E d \in 1..MaxGap : Restart(d)

Spec == Init /\ [][Next]_vars

\* The same bot on a store whose lookups may fail, for a feed of one event
\* that waits for its video, of one event without chat, of one event with
\* video, and for the two feeds of intervals only.
ReadFaultFeeds ==
  { [safety |-> <<Ev("e-old")>>, intervals |-> <<>>],
    [safety |-> <<Ev("e-nochat")>>, intervals |-> <<>>],
    [safety |-> <<Ev("e-video")>>, intervals |-> <<>>],
    [safety |-> <<>>, intervals |-> <<IvMild, IvMapped>>],
    [safety |-> <<>>, intervals |-> <<IvUnmapped, IvMapped>>] }
SpecReadFaults == InitWith("reads", ReadFaultFeeds, DefaultEnv) /\ [][Next]_vars

\* The same bot on a store whose upserts and purge may fail, for a feed of
\* one event without video, of one event without chat, of one event with
\* video, and for the two feeds of intervals only.
WriteFaultFeeds ==
  { [safety |-> <<Ev("e-young")>>, intervals |-> <<>>],
    [safety |-> <<Ev("e-nochat")>>, intervals |-> <<>>],
    [safety |-> <<Ev("e-video")>>, intervals |-> <<>>],
    [safety |-> <<>>, intervals |-> <<IvMild, IvMapped>>],
    [safety |-> <<>>, intervals |-> <<IvUnmapped, IvMapped>>] }
SpecWriteFaults == InitWith("writes", WriteFaultFeeds, DefaultEnv) /\ [][Next]_vars

\* ------------------------------------------- one chunk fetch, page by page
\* What upstream does with one page request: a page of intervals with a next
\* cursor, a last page (no cursor), a page without intervals with or without
\* a cursor, a body whose `data` is not an array, an error, no answer at all.
PageAnswers ==
  {"page+cursor", "page", "empty+cursor", "empty", "malformed", "error", "silent"}
\* Number of flattened intervals on the page, and whether it names a cursor.
flatIntervals(answer) == IF answer \in {"page+cursor", "page"} THEN 1 ELSE 0
nextCursor(answer, page) == IF answer \in {"page+cursor", "empty+cursor"} THEN page ELSE 0

\* The condition of the while loop.
morePages(hasMore, pageCount) == hasMore /\ pageCount < maxPages

\* Mutant: the loop ends after every page.
hasMoreAfter_never(cursor, flat) == FALSE

\* `hasMore = !!cursor && flatIntervals.length > 0`
hasMoreAfter(cursor, flat) == cursor # 0 /\ flat > 0

\* fetchSpeedingIntervalsForWindow is called for a chunk.
FetchStart ==
  /\ pager.pc = "idle"
  /\ pager' = [IdlePager EXCEPT !.pc = "loop", !.hasMore = TRUE]
  /\ UNCHANGED <<tickVars, retention, search, merger, call>>

\* One turn of the loop: the request is issued with the cursor at hand and
\* awaited (axios.get without timeout), then the body is taken apart, its
\* intervals pushed and the cursor read.
PageRequest ==
  /\ pager.pc = "loop"
  /\ morePages(pager.hasMore, pager.pageCount)
  /\ \E answer \in PageAnswers :
       LET sent == [pager EXCEPT !.requests = @ + 1, !.asked = pager.cursor,
                                 !.last = answer]
           cursor == nextCursor(answer, pager.pageCount + 1)
       IN pager' =
            CASE answer = "silent" -> [sent EXCEPT !.pc = "hung"]
              [] answer = "error" -> [sent EXCEPT !.pc = "threw"]
              [] answer = "malformed" -> [sent EXCEPT !.pc = "returned"]
              [] OTHER ->
                   [sent EXCEPT !.intervals = @ + flatIntervals(answer),
                                !.served = @ + flatIntervals(answer),
                                !.cursor = cursor,
                                !.hasMore = hasMoreAfter(cursor, flatIntervals(answer)),
                                !.pageCount = @ + 1]
  /\ UNCHANGED <<tickVars, retention, search, merger, call>>

\* The loop condition is false: the function returns what it gathered.
FetchReturn ==
  /\ pager.pc = "loop"
  /\ ~morePages(pager.hasMore, pager.pageCount)
  /\ pager' = [pager EXCEPT !.pc = "returned"]
  /\ UNCHANGED <<tickVars, retention, search, merger, call>>

NextFetch == FetchStart \/ PageRequest \/ FetchReturn

SpecFetch == Init /\ [][NextFetch]_vars

\* --------------------------------- one delivered interval and the purge
\* Values of SPEEDING_WINDOW_HOURS: the default, and one day more than the
\* retention horizon.
WindowHoursConfigs == {windowHours, (daysOld + 1) * 24}
\* Hours of wall clock followed after the first tick.
RetentionHorizonHours == daysOld * 24 + 2

\* One tick at minute `at` for the interval IvMapped, which upstream reports
\* whenever the window holds its start: the fetch with its ledger filter, the
\* send and markEventSent, then the purge of the callback (minute 0).
retentionTick(r, at) ==
  LET w == slidingWindow(at, r.windowHours, bufferMinutes)
      event == normalizeSpeedingInterval(IvMapped)
      reported == w.startTime <= IvMapped.startTime /\ IvMapped.startTime <= w.endTime
      deliver == reported /\ ~isEventSent(r.sent, event.id, FALSE)
      marked == IF deliver THEN markEventSent(r.sent, event.id, event.type, at, FALSE)
                ELSE r.sent
  IN [r EXCEPT !.pc = "running", !.at = at,
               !.sent = cleanupOldSentEvents(marked, daysOld, at, FALSE),
               !.sends = IF deliver /\ @ < SendsCap THEN @ + 1 ELSE @]

\* The bot is started with a window configuration; first tick at minute 0.
RetentionStart ==
  /\ retention.pc = "idle"
  /\ \E h \in WindowHoursConfigs :
       retention' = retentionTick([retention EXCEPT !.windowHours = h], StartNow + 1)
  /\ UNCHANGED <<tickVars, pager, search, merger, call>>

\* The tick at minute 0 of the next hour.
RetentionHourTick ==
  /\ retention.pc = "running"
  /\ retention.at < StartNow + 1 + RetentionHorizonHours * MinutesPerHour
  /\ retention' = retentionTick(retention, retention.at + MinutesPerHour)
  /\ UNCHANGED <<tickVars, pager, search, merger, call>>

NextRetention == RetentionStart \/ RetentionHourTick

SpecRetention == Init /\ [][NextRetention]_vars

\* ------------------------------------------------- the expanding search
\* Window of a query: start and end moved apart by `minutes`, swapped if
\* that leaves the start after the end.
expandWindow(isoStart, isoEnd, minutes) ==
  LET expandedStart == isoStart - minutes
      expandedEnd == isoEnd + minutes
  IN [startTime |-> IF expandedStart <= expandedEnd THEN expandedStart ELSE expandedEnd,
      endTime |-> IF expandedStart <= expandedEnd THEN expandedEnd ELSE expandedStart]

\* The minutes of the expansion strategies, in the order of the array.
expansionStrategies == <<120, 360, 720>>

\* from / to of the callers: a one-hour window, an instant, and a window
\* whose end lies before its start.
SearchOpts ==
  { [from |-> 0, to |-> MinutesPerHour], [from |-> 0, to |-> 0],
    [from |-> 5 * MinutesPerHour, to |-> 0] }

\* What fetchSpeedingIntervalsForWindow gives for one window: records with
\* intervals, records none of which holds an interval, no record, an error
\* thrown, no answer at all.
WindowAnswers == {"intervals", "records", "empty", "error", "silent"}
windowRecords(answer) == IF answer \in {"intervals", "records"} THEN 1 ELSE 0
windowIntervals(answer) == IF answer = "intervals" THEN 1 ELSE 0

\* Mutant: data never ends the loop over the strategies.
stopsSearch_never(records, intervals) == FALSE

\* `if (chunkIntervals.length > 0) { ...; break; }`
stopsSearch(records, intervals) == intervals > 0

\* The loop over the strategies goes on.
moreStrategies(found, strategy) == ~found /\ strategy <= Len(expansionStrategies)

\* fetchSpeedingIntervalsInternal is called with a base window; the roster
\* is cut into chunks and the first chunk starts with the first strategy.
SearchStart ==
  /\ search.pc = "idle"
  /\ \E opts \in SearchOpts :
       search' = [IdleSearch EXCEPT !.pc = "strategies",
                                    !.base = [startTime |-> opts.from, endTime |-> opts.to],
                                    !.chunk = 1, !.strategy = 1]
  /\ UNCHANGED <<tickVars, pager, retention, merger, call>>

\* One turn of the loop over the strategies: the window is expanded, queried
\* and the answer examined; an error is caught and the loop goes on.
SearchQuery ==
  /\ search.pc = "strategies"
  /\ moreStrategies(search.found, search.strategy)
  /\ \E answer \in WindowAnswers :
       LET minutes == expansionStrategies[search.strategy]
           expandedWindow == expandWindow(search.base.startTime, search.base.endTime, minutes)
           asked == [search EXCEPT !.queries =
                       Append(@, [window |-> expandedWindow, minutes |-> minutes,
                                  answer |-> answer])]
           result == [asked EXCEPT !.chunkRecords = windowRecords(answer),
                                   !.chunkIntervals = windowIntervals(answer)]
       IN search' =
            CASE answer = "silent" -> [asked EXCEPT !.pc = "hung"]
              [] answer = "error" -> [asked EXCEPT !.strategy = @ + 1]
              [] OTHER ->
                   IF stopsSearch(result.chunkRecords, result.chunkIntervals)
                     THEN [result EXCEPT !.found = TRUE]
                     ELSE [result EXCEPT !.strategy = @ + 1]
  /\ UNCHANGED <<tickVars, pager, retention, merger, call>>

\* The loop over the strategies is left: the intervals of the chunk join the
\* result and the next chunk starts, or the function returns.
SearchChunkDone ==
  /\ search.pc = "strategies"
  /\ ~moreStrategies(search.found, search.strategy)
  /\ LET gathered == [search EXCEPT !.total = @ + search.chunkIntervals]
     IN search' =
          IF search.chunk < MaxChunks
            THEN [gathered EXCEPT !.chunk = @ + 1, !.strategy = 1, !.found = FALSE,
                                  !.queries = <<>>, !.chunkRecords = 0,
                                  !.chunkIntervals = 0]
            ELSE [gathered EXCEPT !.pc = "returned"]
  /\ UNCHANGED <<tickVars, pager, retention, merger, call>>

NextSearch == SearchStart \/ SearchQuery \/ SearchChunkDone

SpecSearch == Init /\ [][NextSearch]_vars

\* -------------------------------------------------- mergeAndDedupeEvents
\* The unified events a list can hold: three ids, each at either of two
\* instants or with an occurredAt that is no date.
MergeInstants == {1, 2}
UnifiedPool ==
  { [id |-> i, occurredAt |-> o] :
      i \in {"a", "b", "c"},
      o \in { toISOString(n) : n \in MergeInstants } \cup {"garbage"} }
RECURSIVE ListsUpTo(_)
ListsUpTo(n) ==
  IF n = 0 THEN {<<>>}
  ELSE ListsUpTo(n - 1) \cup
         { Append(l, e) : l \in { x \in ListsUpTo(n - 1) : Len(x) = n - 1 },
                          e \in UnifiedPool }
MergeInputs == ListsUpTo(MergeMaxLen)

\* `new Date(occurredAt).getTime()`: the instant, or NaN.
getTime(occurredAt) ==
  IF \E n \in MergeInstants : toISOString(n) = occurredAt
    THEN [nan |-> FALSE, ms |-> CHOOSE n \in MergeInstants : toISOString(n) = occurredAt]
    ELSE [nan |-> TRUE, ms |-> 0]

\* The comparator `timeA - timeB` as Array.prototype.sort reads it: a NaN
\* result counts as 0.
compareOccurredAt(a, b) ==
  LET timeA == getTime(a.occurredAt)
      timeB == getTime(b.occurredAt)
  IN IF timeA.nan \/ timeB.nan THEN 0 ELSE timeA.ms - timeB.ms

\* Mutant: every event counts as not seen before.
notSeen_always(seen, id) == TRUE

\* `!seen.has(event.id)`
notSeen(seen, id) == id \notin seen

\* The loop that fills `unique`.
RECURSIVE uniqueFrom(_, _)
uniqueFrom(events, seen) ==
  IF events = <<>> THEN <<>>
  ELSE IF notSeen(seen, Head(events).id)
    THEN <<Head(events)>> \o uniqueFrom(Tail(events), seen \cup {Head(events).id})
    ELSE uniqueFrom(Tail(events), seen)

\* Whether the comparator orders the elements of the list consistently.
consistentComparator(list) ==
  \A i, j, k \in 1..Len(list) :
    LET ij == compareOccurredAt(list[i], list[j])
        jk == compareOccurredAt(list[j], list[k])
        ik == compareOccurredAt(list[i], list[k])
    IN /\ (ij = 0 /\ jk = 0) => ik = 0
       /\ (ij < 0 /\ jk < 0) => ik < 0
       /\ (ij > 0 /\ jk > 0) => ik > 0

\* The orders `unique.sort(comparator)` can leave: the stable ascending order
\* when the comparator is consistent, otherwise an order the runtime chooses.
sortOutcomes(list) ==
  LET n == Len(list)
      orders == { p \in [1..n -> 1..n] : \A i, j \in 1..n : p[i] = p[j] => i = j }
      stable(p) ==
        \A i, j \in 1..n :
          i < j => LET c == compareOccurredAt(list[p[i]], list[p[j]])
                   IN c < 0 \/ (c = 0 /\ p[i] < p[j])
      allowed == IF consistentComparator(list) THEN { p \in orders : stable(p) }
                 ELSE orders
  IN { [i \in 1..n |-> list[p[i]]] : p \in allowed }

\* mergeAndDedupeEvents is called with a list.
MergeCall ==
  /\ merger.pc = "idle"
  /\ \E events \in MergeInputs :
       merger' = [merger EXCEPT !.pc = "called", !.input = events]
  /\ UNCHANGED <<tickVars, pager, retention, search, call>>

\* The call returns the deduplicated list, sorted.
MergeReturn ==
  /\ merger.pc = "called"
  /\ \E sorted \in sortOutcomes(uniqueFrom(merger.input, {})) :
       merger' = [merger EXCEPT !.pc = "returned", !.output = sorted]
  /\ UNCHANGED <<tickVars, pager, retention, search, call>>

NextMerge == MergeCall \/ MergeReturn

SpecMerge == Init /\ [][NextMerge]_vars

\* ----------------------------------------- texts, character by character
\* The characters of the texts used below (a string is a sequence of them).
chars(s) ==
  CASE s = "speed" -> <<"s", "p", "e", "e", "d">>
    [] s = "speeding" -> <<"s", "p", "e", "e", "d", "i", "n", "g">>
    [] s = "max speed" -> <<"m", "a", "x", " ", "s", "p", "e", "e", "d">>
    [] s = "severe speed" -> <<"s", "e", "v", "e", "r", "e", " ", "s", "p", "e", "e", "d">>
    [] s = "severe speeding" -> <<"s", "e", "v", "e", "r", "e", " ", "s", "p", "e", "e", "d", "i", "n", "g">>
    [] s = "speeding (manual)" -> <<"s", "p", "e", "e", "d", "i", "n", "g", " ", "(", "m", "a", "n", "u", "a", "l", ")">>
    [] s = "harsh brake" -> <<"h", "a", "r", "s", "h", " ", "b", "r", "a", "k", "e">>
    [] s = "harsh braking" -> <<"h", "a", "r", "s", "h", " ", "b", "r", "a", "k", "i", "n", "g">>
    [] s = "yield" -> <<"y", "i", "e", "l", "d">>
    [] s = "red light" -> <<"r", "e", "d", " ", "l", "i", "g", "h", "t">>
    [] s = "rolling stop" -> <<"r", "o", "l", "l", "i", "n", "g", " ", "s", "t", "o", "p">>
    [] s = "following distance" -> <<"f", "o", "l", "l", "o", "w", "i", "n", "g", " ", "d", "i", "s", "t", "a", "n", "c", "e">>
    [] s = "followingdistance" -> <<"f", "o", "l", "l", "o", "w", "i", "n", "g", "d", "i", "s", "t", "a", "n", "c", "e">>
    [] s = "Harsh Brake" -> <<"H", "a", "r", "s", "h", " ", "B", "r", "a", "k", "e">>
    [] s = "harsh_brake" -> <<"h", "a", "r", "s", "h", "_", "b", "r", "a", "k", "e">>
    [] s = "HarshBrake" -> <<"H", "a", "r", "s", "h", "B", "r", "a", "k", "e">>
    [] s = "Following Distance" -> <<"F", "o", "l", "l", "o", "w", "i", "n", "g", " ", "D", "i", "s", "t", "a", "n", "c", "e">>
    [] s = "following_distance" -> <<"f", "o", "l", "l", "o", "w", "i", "n", "g", "_", "d", "i", "s", "t", "a", "n", "c", "e">>
    [] s = "Speeding" -> <<"S", "p", "e", "e", "d", "i", "n", "g">>
    [] s = "Seatbelt" -> <<"S", "e", "a", "t", "b", "e", "l", "t">>
    [] s = "Did Not Yield" -> <<"D", "i", "d", " ", "N", "o", "t", " ", "Y", "i", "e", "l", "d">>
    [] s = "unknown" -> <<"u", "n", "k", "n", "o", "w", "n">>
    [] s = ", " -> <<",", " ">>
    [] s = " " -> <<" ">>
    [] s = "" -> <<>>

\* String.prototype.toLowerCase.
lowerCase(text) ==
  LET lowerChar(c) ==
      CASE c = "B" -> "b"
        [] c = "D" -> "d"
        [] c = "F" -> "f"
        [] c = "H" -> "h"
        [] c = "N" -> "n"
        [] c = "S" -> "s"
        [] c = "Y" -> "y"
        [] OTHER -> c
  IN [i \in 1..Len(text) |-> lowerChar(text[i])]

\* text.replace(/\s+/g, '_'): every run of blanks becomes one underscore.
RECURSIVE blanksToUnderscore(_)
blanksToUnderscore(text) ==
  IF text = <<>> THEN <<>>
  ELSE IF Head(text) # " " THEN <<Head(text)>> \o blanksToUnderscore(Tail(text))
  ELSE IF Len(text) > 1 /\ text[2] = " " THEN blanksToUnderscore(Tail(text))
  ELSE <<"_">> \o blanksToUnderscore(Tail(text))

\* text.replace(/[\s_]+/g, ''): blanks and underscores are dropped.
compactForm(text) == SelectSeq(text, LAMBDA c : c \notin {" ", "_"})

\* String.prototype.includes.
textIncludes(text, needle) ==
  \E i \in 0..(Len(text) - Len(needle)) :
    SubSeq(text, i + 1, i + Len(needle)) = needle

\* Array.prototype.join.
RECURSIVE join(_, _)
join(parts, sep) ==
  IF parts = <<>> THEN <<>>
  ELSE IF Len(parts) = 1 THEN parts[1]
  ELSE parts[1] \o sep \o join(Tail(parts), sep)

\* a || b for two texts.
orElse(a, b) == IF a # <<>> THEN a ELSE b

\* --------------------------------------- normalizer and relevance filters
\* A raw safety event: behaviorLabels is a list of [label, name]; type stands
\* for `event.type || event.eventType || event.behaviorType`; eventTime and
\* the three URL fields are those of SafetyEv.
RawSafetyEvent(labels, type, kind, at, fwd, inw, gen) ==
  [id |-> "e-raw", vehicle |-> "Truck 105", behaviorLabels |-> labels,
   type |-> type, eventTime |-> [kind |-> kind, at |-> at],
   forward |-> fwd, inward |-> inw, generic |-> gen]

\* What a time field that is no date, and a field that is absent, look like
\* in a unified event.
NotADate == "garbage"
undefined == "undefined"

\* Mutant: inward before forward.
videoUrlOf_inwardFirst(forward, inward, generic) == FirstNonEmpty(inward, forward, generic)

\* `forward || inward || generic`
videoUrlOf(forward, inward, generic) == FirstNonEmpty(forward, inward, generic)

\* The type text of normalizeSafetyEvent.
eventTypeOf(event) ==
  LET labels == event.behaviorLabels
      labelNames == join([k \in 1..Len(labels) |-> orElse(labels[k].name, labels[k].label)],
                         chars(", "))
  IN IF Len(labels) > 0
       THEN blanksToUnderscore(lowerCase(labelNames))
       ELSE blanksToUnderscore(lowerCase(orElse(event.type, chars("unknown"))))

\* normalizeSafetyEvent, called at minute `at`.
normalizeSafetyEvent(event, at) ==
  [source |-> "safety",
   id |-> event.id,
   type |-> eventTypeOf(event),
   occurredAt |-> CASE event.eventTime.kind = "ok" -> event.eventTime.at
                    [] event.eventTime.kind = "invalid" -> NotADate
                    [] OTHER -> at,
   vehicleName |-> event.vehicle,
   videoUrl |-> videoUrlOf(event.forward, event.inward, event.generic)]

\* buildSafetyPayload: the video URL of the payload.
buildSafetyPayload(ev) == [videoUrl |-> videoUrlOf(ev.forward, ev.inward, ev.generic)]

\* Mutant: keywords are looked for in the literal text only.
matchesKeyword_literalOnly(text, kw) == textIncludes(text, kw)

\* `text.includes(kw) || compact.includes(kwCompact)`
matchesKeyword(text, kw) ==
  textIncludes(text, kw) \/ textIncludes(compactForm(text), compactForm(kw))

\* The two tests both filters make on their text.
passesKeywords(text) ==
  IF \E kw \in BLOCKED_KEYWORDS : matchesKeyword(text, chars(kw)) THEN FALSE
  ELSE \E kw \in ALLOWED_KEYWORDS : matchesKeyword(text, lowerCase(chars(kw)))

\* The text isRelevantEvent builds from the behaviour labels.
labelText(labels) ==
  lowerCase(join([k \in 1..Len(labels) |->
                    labels[k].label \o chars(" ") \o labels[k].name], chars(" ")))

\* isRelevantEvent on the labels of a raw event.
isRelevantEventOfLabels(labels) ==
  IF Len(labels) = 0 THEN FALSE ELSE passesKeywords(labelText(labels))

\* isRelevantUnifiedEvent.
isRelevantUnifiedEvent(event) ==
  IF event.source = "speeding" /\ event.type = "severe_speeding" THEN TRUE
  ELSE IF event.source = "safety" THEN passesKeywords(lowerCase(event.type))
  ELSE FALSE

\* ------------------------------------------------ the tick in dry-run mode
\* The process started with DRY_RUN_MODE=true.  The constant is read from the
\* environment once; the safety loop passes the literal false as the dryRun
\* argument of the delivery helper (SendRuns) and the speeding loop calls the
\* transport itself (SpeedSend), so the ticks are those of Next.
SpecDryRun ==
  InitWith("none", Feeds, Env(TRUE, MAX_EVENTS_PER_CRON_RUN, <<>>)) /\ [][Next]_vars

\* The process started with MAX_EVENTS_PER_CRON_RUN=1.  Nothing in the tick
\* reads the setting: both loops run over every event that was fetched.
SpecCapOfOne == InitWith("none", Feeds, Env(FALSE, 1, <<>>)) /\ [][Next]_vars

\* ------------------------------------------------- /severe_speeding_test
\* The elements of a list.
SeqToSet(q) == { q[k] : k \in 1..Len(q) }
\* The chats the command can be typed in: the chat of Truck 105, or another
\* chat.  The handler is registered without a guard.
CommandChats == {ChatOfTruck("Truck 105"), 2002}
testWindowHours == 12

\* handleSevereSpeedingTest, typed in chat `target` with or without the word
\* force.  severe is the set of intervals upstream labels severe or heavy,
\* delivered the ids whose sendMessage succeeds.  Every interval that passes
\* the filters is sent to the chat of the command, marked as sent when the
\* send succeeded, and logged either way.
SevereSpeedingTest ==
  /\ proc.status = "running"
  /\ \E force \in BOOLEAN, target \in CommandChats, rosterOk \in BOOLEAN,
        severe \in SUBSET SeqToSet(feed.intervals),
        fRead \in ReadFaults, fMark, fWrite \in WriteFaults :
       \E delivered \in SUBSET { normalizeSpeedingInterval(i).id : i \in severe } :
         LET severeByApi == SelectSeq(feed.intervals, LAMBDA i : i \in severe)
             normalized == normalizeSpeedingIntervals(severeByApi)
             from == now - testWindowHours * MinutesPerHour
             isNew(event) ==
               /\ event.occurredAt >= from
               /\ force \/ ~isEventSent(sentEvent, event.id, fRead)
             recentAndNew == SelectSeq(normalized, isNew)
             ids == { recentAndNew[k].id : k \in 1..Len(recentAndNew) }
             toMappedChat(id) ==
               \E k \in 1..Len(recentAndNew) :
                 /\ recentAndNew[k].id = id
                 /\ target = ChatOfTruck(VehicleName(recentAndNew[k].assetId))
         IN /\ severe # {}
            \* getAllVehiclesInfo: the cache is filled as by a roster fetch
            /\ vehiclesCache' =
                 getAllVehicleAssetIds(vehiclesCache, now, rosterOk, <<>>).cache
            /\ sentEvent' =
                 [k \in DOMAIN sentEvent |->
                    IF k \in ids /\ k \in delivered
                      THEN markEventSent(sentEvent, k, "severe_speeding", now, fMark)[k]
                      ELSE sentEvent[k]]
            /\ safetyEventLog' =
                 [k \in DOMAIN safetyEventLog |->
                    IF k \in ids /\ ~fWrite THEN LogRow(target, "")
                    ELSE safetyEventLog[k]]
            /\ sends' =
                 [k \in DOMAIN sends |->
                    IF k \in ids /\ k \in delivered /\ toMappedChat(k)
                      THEN Bump(sends, k, 1)[k] ELSE sends[k]]
            /\ step' = [NoStep EXCEPT !.phase = "command", !.source = "speeding",
                                      !.outcome = IF ids \cap delivered # {}
                                                    THEN "sent" ELSE "none"]
  /\ UNCHANGED <<now, feed, storeFaults, ticks, proc, sideVars>>

NextWithCommand == Next \/ SevereSpeedingTest

\* The bot with the command typed at any moment, for a feed of one safety
\* event and for a feed of one interval of the vehicle that has a chat.
CommandFeeds ==
  { [safety |-> <<Ev("e-old")>>, intervals |-> <<>>],
    [safety |-> <<>>, intervals |-> <<IvMapped>>] }
SpecTestCommand ==
  InitWith("none", CommandFeeds, DefaultEnv) /\ [][NextWithCommand]_vars

\* The process started with SAMSARA_ASSET_IDS holding the ids of the roster.
\* The ticks then never fill the vehicle cache; the command, which calls
\* getAllVehiclesInfo, does.
SpecAssetOverride ==
  InitWith("none", CommandFeeds, Env(FALSE, MAX_EVENTS_PER_CRON_RUN, Roster))
    /\ [][NextWithCommand]_vars

\* ------------------------------------- single calls of these functions
\* Label and type texts upstream may send.
LabelWords ==
  {"Harsh Brake", "harsh_brake", "HarshBrake", "Following Distance",
   "following_distance", "Speeding", "Seatbelt", "Did Not Yield", ""}
Label(label, name) == [label |-> chars(label), name |-> chars(name)]
\* No label, one label, or a harsh brake followed by a second label.
LabelLists ==
  {<<>>} \cup { <<Label(l, n)>> : l, n \in LabelWords }
         \cup { <<Label("", "Harsh Brake"), Label("", n)>> : n \in LabelWords }

\* The events handed to normalizeSafetyEvent: every combination of the three
\* URL fields and of the time field, for an event with and without labels.
NormalizerEvents ==
  { RawSafetyEvent(labels, chars("harsh_brake"), kind, StartNow - 2, fwd, inw, gen) :
      labels \in {<<>>, <<Label("", "Harsh Brake")>>},
      kind \in {"ok", "missing", "invalid"},
      fwd \in {"", "https://fwd"}, inw \in {"", "https://inw"},
      gen \in {"", "https://gen"} }
\* The events handed to the filters: every list of labels and type text.
FilterEvents ==
  { RawSafetyEvent(labels, chars(type), "ok", StartNow - 2, "", "", "") :
      labels \in LabelLists,
      type \in {"", "harsh_brake", "Following Distance"} }
\* An interval record that came without startTime.
IvNoStart == [IvMapped EXCEPT !.startTime = undefined]

\* normalizeSafetyEvent is called; the same event is given to
\* buildSafetyPayload and to the URL resolution of the delivery helper.
NormalizeSafetyEventCall ==
  /\ call.fn = "none"
  /\ \E event \in NormalizerEvents, at \in {StartNow, StartNow + 1}, lookup \in MediaLookups :
       call' = [fn |-> "normalizeSafetyEvent", input |-> event, at |-> at,
                output |-> [event |-> normalizeSafetyEvent(event, at),
                            payloadUrl |-> buildSafetyPayload(event).videoUrl,
                            lookup |-> lookup,
                            deliveryUrl |-> resolveVideoUrl(event, lookup)]]
  /\ UNCHANGED <<tickVars, pager, retention, search, merger>>

\* normalizeSpeedingInterval is called.
NormalizeSpeedingIntervalCall ==
  /\ call.fn = "none"
  /\ \E catalogued \in IntervalCatalog, whole \in BOOLEAN, at \in {StartNow, StartNow + 1} :
       LET interval == IF whole THEN catalogued ELSE IvNoStart IN
       call' = [fn |-> "normalizeSpeedingInterval", input |-> interval, at |-> at,
                output |-> [event |-> normalizeSpeedingInterval(interval)]]
  /\ UNCHANGED <<tickVars, pager, retention, search, merger>>

\* Both filters are asked about one event: isRelevantEvent about the raw
\* event, isRelevantUnifiedEvent about its normalized form.
FilterCall ==
  /\ call.fn = "none"
  /\ \E event \in FilterEvents :
       call' = [fn |-> "isRelevant", input |-> event, at |-> StartNow,
                output |-> [event |-> normalizeSafetyEvent(event, StartNow),
                            raw |-> isRelevantEventOfLabels(event.behaviorLabels),
                            unified |-> isRelevantUnifiedEvent(
                                          normalizeSafetyEvent(event, StartNow))]]
  /\ UNCHANGED <<tickVars, pager, retention, search, merger>>

NextCall == NormalizeSafetyEventCall \/ NormalizeSpeedingIntervalCall \/ FilterCall

SpecCall == Init /\ [][NextCall]_vars

\* ================================================================== claims
Running == { t \in TickIds : ticks[t].pc # "idle" }
\* Tick t takes the step named by its program counter.
Steps(t, pcs) == ticks[t].pc \in pcs /\ ticks'[t] # ticks[t]
TablesUnchanged ==
  safetyEventLog' = safetyEventLog /\ sentEvent' = sentEvent /\ sends' = sends
HeadSafety(t) == Head(ticks[t].safetyQ)
HeadSpeeding(t) == Head(ticks[t].speedQ)

\* C1: every event id gets at most one confirmed send, whatever the ticks do
\* (restarts between ticks, ticks overlapping in time).
C1_AtMostOneSend == \A k \in LogKeys : sends[k] <= 1

\* C2: an event whose id is in its dedup table when it is examined causes no
\* transport call and no table write, and the loop moves on to the next event.
C2_LedgerHitSkips ==
  [][\A t \in TickIds :
       /\ (Steps(t, {"safety"}) /\ safetyEventLog[HeadSafety(t).id].present)
            => /\ step'.id = HeadSafety(t).id /\ step'.calls = <<>>
               /\ TablesUnchanged
               /\ ticks'[t].safetyQ = Tail(ticks[t].safetyQ)
               /\ ticks'[t].pc = NextPc(Tail(ticks[t].safetyQ), ticks[t].speedQ)
       /\ (Steps(t, {"speeding"}) /\ sentEvent[HeadSpeeding(t).id].present)
            => /\ step'.id = HeadSpeeding(t).id /\ step'.calls = <<>>
               /\ TablesUnchanged
               /\ ticks'[t].speedQ = Tail(ticks[t].speedQ)
               /\ ticks'[t].pc = NextPc(<<>>, Tail(ticks[t].speedQ))]_vars
C2_Witness ==
  /\ step.source = "safety" /\ step.phase = "examine" /\ step.hit
  /\ step.outcome = "skip" /\ sends[step.id] = 1

\* C3: at every moment at most one tick is between its start and its end.
C3_OneTickAtATime == Cardinality(Running) <= 1

\* C4: a SentEvent row of a speeding id is written only by the step whose
\* sendMessage for that id has just returned success.
C4_LedgerWriteOnlyAfterSend ==
  [][\A k \in SpeedingIds :
       (sentEvent'[k] # sentEvent[k] /\ sentEvent'[k].present)
         => /\ \E t \in TickIds : Steps(t, {"spsend"}) /\ HeadSpeeding(t).id = k
            /\ step'.id = k
            /\ Len(step'.calls) = 1
            /\ step'.calls[1].op = "sendMessage" /\ step'.calls[1].ok]_vars
C4_Witness ==
  /\ step.source = "speeding" /\ step.phase = "send" /\ step.wroteLedger
  /\ sentEvent[step.id].present /\ sends[step.id] = 1

\* C5: the SafetyEventLog row that makes a safety event count as processed
\* exists only if a video or text send for it was confirmed.
C5_ProcessedOnlyAfterConfirmedSend ==
  \A k \in SafetyIds : safetyEventLog[k].present => sends[k] >= 1

\* C6: a delivery step in which every transport call failed does not make the
\* event count as processed (SafetyEventLog for safety events, SentEvent for
\* speeding intervals), so the next tick attempts it again.
C6_FailedSendStaysUnprocessed ==
  [][\A t \in TickIds :
       (Steps(t, {"send", "spsend"}) /\ step'.calls # <<>> /\ Confirmed(step'.calls) = 0)
         => /\ ticks[t].pc = "send" =>
                 (safetyEventLog'[HeadSafety(t).id].present
                    => safetyEventLog[HeadSafety(t).id].present)
            /\ ticks[t].pc = "spsend" =>
                 (sentEvent'[HeadSpeeding(t).id].present
                    => sentEvent[HeadSpeeding(t).id].present)]_vars

\* C7: a safety event whose age at the tick is below 3 minutes causes no
\* transport call and no write to SafetyEventLog or SentEvent in that tick, and
\* is not handed to the delivery helper (the next tick examines it again).
C7_FreshEventDeferred ==
  [][\A t \in TickIds :
       (/\ Steps(t, {"safety"})
        /\ HeadSafety(t).eventTime.kind = "ok"
        /\ ticks[t].now - HeadSafety(t).eventTime.at < 3)
         => /\ step'.id = HeadSafety(t).id /\ step'.calls = <<>>
            /\ TablesUnchanged
            /\ ticks'[t].pc # "send"
            /\ ticks'[t].safetyQ = Tail(ticks[t].safetyQ)]_vars

\* The age gate as the loop applies it, after the dedup check and the chat
\* lookup: C7 restricted to unprocessed events of a vehicle with a chat.
RoutedFreshEventDeferred ==
  [][\A t \in TickIds :
       (/\ Steps(t, {"safety"})
        /\ ~safetyEventLog[HeadSafety(t).id].present
        /\ ChatOfTruck(HeadSafety(t).vehicle) # 0
        /\ HeadSafety(t).eventTime.kind = "ok"
        /\ ticks[t].now - HeadSafety(t).eventTime.at < 3)
         => /\ step'.outcome = "defer" /\ step'.calls = <<>>
            /\ TablesUnchanged
            /\ ticks'[t].pc # "send"
            /\ ticks'[t].safetyQ = Tail(ticks[t].safetyQ)]_vars

\* C8: an unprocessed safety event with a destination chat, no resolvable
\* video URL and an age of 10 minutes or more is delivered with exactly one
\* call, a text-only sendMessage, and is in the SafetyEventLog once that call
\* has succeeded.
C8_TextOnlyAfterGiveup ==
  /\ (/\ step.source = "safety" /\ step.phase = "examine" /\ ~step.hit
      /\ ChatOfTruck(Ev(step.id).vehicle) # 0
      /\ step.ageKnown /\ step.age >= 10)
       => /\ step.outcome = "deliver"
          /\ ticks[step.tick].pc = "send"
          /\ ticks[step.tick].allowTextIfNoVideo
  /\ (/\ step.source = "safety" /\ step.phase = "send" /\ ~step.hasUrl
      /\ step.ageKnown /\ step.age >= 10)
       => /\ Len(step.calls) = 1
          /\ step.calls[1].op = "sendMessage"
          /\ step.calls[1].ok =>
               /\ step.outcome = "sent"
               /\ safetyEventLog[step.id].present
               /\ safetyEventLog[step.id].sentToChatId = ChatOfTruck(Ev(step.id).vehicle)
C8_Witness ==
  /\ step.source = "safety" /\ step.phase = "send" /\ ~step.hasUrl
  /\ step.ageKnown /\ step.age = 10
  /\ step.calls = <<Call("sendMessage", "text", Ok)>>
  /\ safetyEventLog[step.id].present

\* C9: for a safety event aged at least 3 and less than 10 minutes, every
\* text-only sendMessage comes after a failed sendVideo of the same tick; when
\* no video URL is resolved for it, the tick makes no call and writes nothing
\* for it.
C9_TextOnlyAsFallback ==
  [][\A t \in TickIds :
       (/\ Steps(t, {"safety", "send"})
        /\ HeadSafety(t).eventTime.kind = "ok"
        /\ ticks[t].now - HeadSafety(t).eventTime.at >= 3
        /\ ticks[t].now - HeadSafety(t).eventTime.at < 10)
         => /\ step'.id = HeadSafety(t).id
            /\ \A i \in 1..Len(step'.calls) :
                 step'.calls[i].op = "sendMessage" =>
                   \E j \in 1..(i - 1) :
                     step'.calls[j].op = "sendVideo" /\ ~step'.calls[j].ok
            /\ (ticks[t].pc = "send" /\ ~step'.hasUrl)
                 => (step'.calls = <<>> /\ TablesUnchanged)
            /\ (/\ ticks[t].pc = "safety"
                /\ FirstNonEmpty(HeadSafety(t).forward, HeadSafety(t).inward,
                                 HeadSafety(t).generic) = "")
                 => (step'.calls = <<>> /\ TablesUnchanged)]_vars

\* What the delivery helper and the handling of its result do for such an
\* event: C9 restricted to the events that reach the helper.
DeliveredTextOnlyAsFallback ==
  [][\A t \in TickIds :
       (/\ Steps(t, {"send"})
        /\ HeadSafety(t).eventTime.kind = "ok"
        /\ ticks[t].now - HeadSafety(t).eventTime.at >= 3
        /\ ticks[t].now - HeadSafety(t).eventTime.at < 10)
         => /\ \A i \in 1..Len(step'.calls) :
                 step'.calls[i].op = "sendMessage" =>
                   \E j \in 1..(i - 1) :
                     step'.calls[j].op = "sendVideo" /\ ~step'.calls[j].ok
            /\ ~step'.hasUrl => (step'.calls = <<>> /\ TablesUnchanged)]_vars

\* C10: when the sendVideo by URL fails with HTTP 400 or 403 or with an error
\* text containing 'bad request', 'file' or 'fetch', the download comes next,
\* then (the file downloaded) the sendVideo of the stream, and only after them
\* a text-only sendMessage.
C10_Fetchable(e) ==
  \/ e.code \in {400, 403}
  \/ \E kw \in {"bad request", "file", "fetch"} : includes(toLowerCase(e.msg), kw)
C10_DownloadBeforeText ==
  (/\ step.source = "safety" /\ step.phase = "send" /\ step.calls # <<>>
   /\ step.calls[1].op = "sendVideo" /\ step.calls[1].via = "url"
   /\ ~step.calls[1].ok /\ C10_Fetchable(step.calls[1].res))
    => /\ Len(step.calls) >= 2
       /\ step.calls[2].op = "download"
       /\ step.calls[2].ok =>
            /\ Len(step.calls) >= 3
            /\ step.calls[3].op = "sendVideo" /\ step.calls[3].via = "stream"
       /\ \A i \in 1..Len(step.calls) :
            step.calls[i].op = "sendMessage" =>
              /\ i > 2
              /\ step.calls[2].ok => i > 3
C10_Witness ==
  /\ step.source = "safety" /\ step.phase = "send" /\ Len(step.calls) = 4
  /\ step.calls[1].op = "sendVideo" /\ step.calls[1].res.code = 403
  /\ step.calls[2].op = "download" /\ step.calls[2].ok
  /\ step.calls[3].op = "sendVideo" /\ step.calls[3].via = "stream" /\ ~step.calls[3].ok
  /\ step.calls[4].op = "sendMessage"

\* C11: when the sendVideo by URL fails with an error that is neither HTTP 400
\* or 403 nor has a text containing 'bad request', 'file' or 'fetch', the
\* delivery makes no download and its next call is the text-only sendMessage.
C11_NoDownloadWhenNotFetchable ==
  (/\ step.source = "safety" /\ step.phase = "send" /\ step.calls # <<>>
   /\ step.calls[1].op = "sendVideo" /\ step.calls[1].via = "url"
   /\ ~step.calls[1].ok /\ ~C10_Fetchable(step.calls[1].res))
    => /\ Len(step.calls) = 2
       /\ step.calls[2].op = "sendMessage" /\ step.calls[2].via = "text"
       /\ \A i \in 1..Len(step.calls) : step.calls[i].op # "download"
C11_Witness ==
  /\ step.source = "safety" /\ step.phase = "send" /\ Len(step.calls) = 2
  /\ step.calls[1].op = "sendVideo" /\ step.calls[1].res.code = 401
  /\ step.calls[2].op = "sendMessage" /\ step.calls[2].ok
  /\ step.outcome = "sent"

\* C12: when the sendVideo of the downloaded file fails, the same invocation of
\* the helper goes on to a text-only sendMessage.
C12_TextAfterFailedStream ==
  (step.source = "safety" /\ step.phase = "send")
    => \A i \in 1..Len(step.calls) :
         (step.calls[i].op = "sendVideo" /\ step.calls[i].via = "stream"
          /\ ~step.calls[i].ok)
           => /\ Len(step.calls) = i + 1
              /\ step.calls[i + 1].op = "sendMessage"

\* C12 for the invocations in which removing the temporary file does not throw.
TextAfterFailedStreamWhenCleanupWorks ==
  (step.source = "safety" /\ step.phase = "send" /\ step.outcome # "exception")
    => \A i \in 1..Len(step.calls) :
         (step.calls[i].op = "sendVideo" /\ step.calls[i].via = "stream"
          /\ ~step.calls[i].ok)
           => /\ Len(step.calls) = i + 1
              /\ step.calls[i + 1].op = "sendMessage"

C14_ExceptionKeepsRemainingEvents ==
  [][\A t \in TickIds :
       /\ (Steps(t, {"send"}) /\ step'.outcome = "exception")
            => /\ ticks'[t].safetyQ = Tail(ticks[t].safetyQ)
               /\ ticks'[t].speedQ = ticks[t].speedQ
               /\ ticks'[t].pc = NextPc(Tail(ticks[t].safetyQ), ticks[t].speedQ)
       /\ (Steps(t, {"spsend"}) /\ ~step'.calls[1].ok)
            => /\ ticks'[t].speedQ = Tail(ticks[t].speedQ)
               /\ ticks'[t].pc = NextPc(<<>>, Tail(ticks[t].speedQ))]_vars
C14_Witness ==
  /\ step.source = "safety" /\ step.phase = "send" /\ step.outcome = "exception"
  /\ ticks[step.tick].pc = "speeding"
  /\ ticks[step.tick].speedQ # <<>>

\* C16: a chunk of asset ids whose fetch fails does not end the chunk loop:
\* every severe interval of the window that belongs to a chunk whose fetch
\* succeeded, and that the ledger does not hold, is in the result of the tick's
\* interval fetch, whatever happened to the other chunks.
C16_FailedChunkKeepsOthers ==
  [][\A t \in TickIds :
       (step'.phase = "fetch" /\ step'.tick = t /\ step'.chunks > 0)
         => \A n \in 1..Len(feed.intervals) :
              LET i == feed.intervals[n]
              IN (/\ step'.chunkOk[ChunkIndex[i.assetId]]
                  /\ i.maxSpeedMph - i.speedLimitMph >= overThresholdMph
                  /\ ~sentEvent["speeding:" \o getSpeedingIntervalDedupKey(i)].present)
                   => \E q \in 1..Len(step'.newToPost) :
                        step'.newToPost[q] = normalizeSpeedingInterval(i)]_vars
C16_Witness ==
  /\ step.phase = "fetch" /\ step.chunks = MaxChunks
  /\ ~step.chunkOk[1] /\ step.chunkOk[ChunkIndex["V9"]]
  /\ feed.intervals = <<IvUnmapped, IvMapped>>
  /\ step.newToPost = <<normalizeSpeedingInterval(IvUnmapped)>>

\* C15: an error thrown inside a tick stays inside the tick: the process is
\* running in every state, a tick that threw has returned (its callback is
\* idle again), and after a failed tick the cron can still start a tick as
\* long as a callback is free and the explored time has not run out.
C15_TickErrorStaysInsideTick ==
  /\ proc.status = "running"
  /\ (step.phase = "fetch" /\ step.outcome = "exception")
       => ticks[step.tick].pc = "idle"
  /\ (step.phase = "fetch" /\ step.outcome = "exception" /\ now < MaxNow)
       => ENABLED (\E t \in TickIds : CronFire(t))
C15_Witness ==
  /\ step.phase = "fetch" /\ step.outcome = "none" /\ step.afterFailure
  /\ ticks[step.tick].pc \in {"safety", "speeding"}

\* C17: when the media lookup of a delivery fails (the request fails, nothing
\* matches, the match holds no URL), the event is delivered as an event without
\* video: no URL is resolved, no video send and no download is made, and no
\* exception leaves the delivery.
C17_LookupFailureMeansNoVideo ==
  (step.phase = "send" /\ step.source = "safety"
     /\ step.lookup \in {"error", "nomatch", "nourl"})
    => /\ ~step.hasUrl
       /\ \A i \in 1..Len(step.calls) : step.calls[i].op = "sendMessage"
       /\ step.outcome # "exception"
C17_Witness ==
  /\ step.phase = "send" /\ step.source = "safety" /\ step.lookup = "nourl"
  /\ step.outcome = "sent" /\ Len(step.calls) = 1

\* C18: whatever upstream does, the fetch of one chunk issues at most maxPages
\* page requests and then returns: it is never left waiting for an answer.
C18_AtMostMaxPagesThenReturns ==
  /\ pager.requests <= maxPages
  /\ pager.pc # "hung"
\* The ceiling alone holds: no fetch issues more than maxPages page requests,
\* and a fetch at the ceiling returns.
PageCeilingHolds ==
  /\ pager.requests <= maxPages
  /\ (pager.pc = "loop" /\ pager.pageCount = maxPages) => ENABLED FetchReturn

\* C19: every upstream call of a tick is bounded by a client-side timeout, so
\* no tick is left waiting on an upstream that does not answer.
C19_NoTickWaitsForever == \A t \in TickIds : ticks[t].pc # "hung"

\* C20: a lookup in the processed log or in the ledger that fails reports the
\* event as not processed: the event is not skipped, even when its row is in
\* the table, and the loop goes on to deliver it.
C20_FailedLookupDoesNotSkip ==
  [][\A t \in TickIds :
       (Steps(t, {"safety", "speeding"}) /\ step'.readFailed)
         => /\ step'.outcome # "skip"
            /\ step'.outcome = "deliver" => ticks'[t].pc \in {"send", "spsend"}]_vars
C20_Witness ==
  /\ step.phase = "examine" /\ step.source = "safety"
  /\ step.readFailed /\ step.hit
  /\ step.outcome = "deliver" /\ ticks[step.tick].pc = "send"

\* C21: a write to the ledger or to the audit log that fails does not throw to
\* its caller: the step that made the write ends as it would have ended with
\* the write done (never as an exception of the write), the table keeps its
\* rows, and the tick goes on with the remaining events.
C21_FailedWriteIsSwallowed ==
  [][\A t \in TickIds :
       (Steps(t, {"safety", "send", "speeding", "spsend"}) /\ step'.writeFailed)
         => /\ ticks'[t].pc # "idle"
            /\ step'.phase = "examine" => step'.outcome = "nochat"
            /\ Steps(t, {"safety", "send"})
                 => /\ ticks'[t].safetyQ = Tail(ticks[t].safetyQ)
                    /\ ticks'[t].speedQ = ticks[t].speedQ
            /\ Steps(t, {"speeding", "spsend"})
                 => ticks'[t].speedQ = Tail(ticks[t].speedQ)
            /\ ~step'.wroteLog => safetyEventLog' = safetyEventLog
            /\ ~step'.wroteLedger => sentEvent' = sentEvent]_vars
C21_Witness ==
  /\ step.phase = "send" /\ step.source = "speeding" /\ step.writeFailed
  /\ step.outcome = "sent" /\ ~step.wroteLog
  /\ ticks[step.tick].pc = "speeding" /\ ticks[step.tick].speedQ # <<>>

C23_SpeedingDedupReadsLedgerOnly ==
  [][\A t \in TickIds :
       Steps(t, {"speeding"})
         => /\ step'.id = HeadSpeeding(t).id
            /\ (step'.outcome = "skip") <=> sentEvent[HeadSpeeding(t).id].present]_vars
C23_Witness ==
  /\ step.phase = "examine" /\ step.source = "speeding"
  /\ safetyEventLog[step.id].present /\ ~sentEvent[step.id].present
  /\ step.outcome = "deliver" /\ ticks[step.tick].pc = "spsend"

\* C24: the purge runs once in every clock hour in which ticks fire.  The
\* only callback that can purge is one that returns during minute 0 of the
\* hour, so: a tick fired at minute 0 has purged the rows past the retention
\* horizon when it returns, and when it fails with no other callback running.
C24_PurgeEveryHour ==
  [][\A t \in TickIds :
       /\ (ticks[t].pc = "end" /\ ticks[t].now % MinutesPerHour = 0
             /\ ticks'[t].pc = "idle" /\ now' = now)
            => ~sentEvent'[StaleKey].present
       /\ (step' # step /\ step'.phase = "fetch" /\ step'.tick = t
             /\ step'.outcome = "exception" /\ now' % MinutesPerHour = 0
             /\ \A u \in TickIds : ticks'[u].pc = "idle")
            => ~sentEvent'[StaleKey].present]_vars
\* What holds: a callback that returns from checkAndNotifySafetyEvents during
\* minute 0 of an hour purges the rows past the retention horizon.
PurgeWhenCallbackReturnsAtMinuteZero ==
  [][\A t \in TickIds :
       (Steps(t, {"end"}) /\ now % MinutesPerHour = 0)
         => ~sentEvent'[StaleKey].present]_vars

\* C25: the purge of rows older than daysOld days never makes a delivered
\* event deliverable again, for every window configuration: the interval is
\* delivered at most once.
C25_PurgeNeverRedelivers == retention.sends <= 1
\* What holds: with the default window the interval has left the window long
\* before its row is purged.
PurgeIsSafeForDefaultWindow ==
  retention.windowHours = windowHours => retention.sends <= 1

\* ------------------------------------------------------------------- C26
\* The search step issues a window query for the chunk at work.
QueryIssued == Len(search'.queries) = Len(search.queries) + 1
LastQuery(q) == q[Len(q)]

\* C26: the expanding search issues its first query for exactly the base
\* window of the caller, and queries a widened window only if that base
\* query returned zero records.
C26_FirstQueryIsBaseWindow ==
  [][QueryIssued =>
       IF search.queries = <<>>
         THEN LastQuery(search'.queries).window = search.base
         ELSE windowRecords(search.queries[1].answer) = 0]_vars

\* What the search does instead: the first query of every chunk is already
\* the base window moved apart by two hours on either side.
FirstQueryIsWidenedByTwoHours ==
  [][(QueryIssued /\ search.queries = <<>>
        /\ search.base.startTime <= search.base.endTime) =>
       LastQuery(search'.queries).window =
         [startTime |-> search.base.startTime - 2 * MinutesPerHour,
          endTime |-> search.base.endTime + 2 * MinutesPerHour]]_vars

\* ------------------------------------------------------------------- C27
\* The widening deltas of the specification, in minutes.
WideningDeltas == <<2 * MinutesPerHour, 6 * MinutesPerHour, 12 * MinutesPerHour>>
\* The k-th query of a chunk uses the k-th delta.
NextDeltaInOrder ==
  /\ Len(search.queries) < Len(WideningDeltas)
  /\ LastQuery(search'.queries).minutes = WideningDeltas[Len(search.queries) + 1]
  /\ search.base.startTime <= search.base.endTime =>
       LastQuery(search'.queries).window =
         [startTime |-> search.base.startTime - LastQuery(search'.queries).minutes,
          endTime |-> search.base.endTime + LastQuery(search'.queries).minutes]

\* C27: the expanding search tries the widening deltas in strictly increasing
\* order (two, six, twelve hours) without skipping one, and issues no further
\* query once a window has returned at least one record or the sequence is
\* exhausted.
C27_DeltasInOrderUntilRecords ==
  [][QueryIssued =>
       /\ NextDeltaInOrder
       /\ \A k \in 1..Len(search.queries) :
            windowRecords(search.queries[k].answer) = 0]_vars

\* C27, amended: for every chunk the deltas are tried in that order without
\* skipping one, and no further query is issued for the chunk once a query
\* has returned at least one interval or the sequence is exhausted; records
\* that hold no interval, like an error, count as an empty answer.
C27_DeltasInOrderUntilIntervals ==
  [][QueryIssued =>
       /\ NextDeltaInOrder
       /\ \A k \in 1..Len(search.queries) :
            windowIntervals(search.queries[k].answer) = 0]_vars

\* A chunk whose first window held records without intervals and whose
\* second window held an interval: the search left the chunk after two
\* queries.
C27_Witness ==
  /\ search.pc = "strategies"
  /\ search.chunk = MaxChunks
  /\ search.total >= 1
  /\ Len(search.queries) = 2
  /\ search.queries[1].answer = "records"
  /\ search.queries[2].answer = "intervals"
  /\ search.found

\* ------------------------------------------------------------------- C28
\* The page loop of the chunk ends in this step, below the page ceiling.
StoppedBelowCeiling ==
  /\ pager.pc = "loop"
  /\ pager'.pc \in {"returned", "threw"}
  /\ pager'.pageCount < maxPages
\* Every request after the first carries the cursor of the page before it.
RequestCarriesCursor ==
  pager'.requests = pager.requests + 1 => pager'.asked = pager.cursor

\* C28: below the page-count ceiling, pagination for a chunk keeps requesting
\* the next page with the returned cursor until the cursor is absent or an
\* empty page is returned; it does not stop earlier, so every interval on a
\* page received before that is in the result.
C28_PagesFollowedToTheEnd ==
  [][/\ RequestCarriesCursor
     /\ StoppedBelowCeiling =>
          /\ pager'.last \in {"page", "empty", "empty+cursor"}
          /\ pager'.pc = "returned"
          /\ pager'.intervals = pager'.served]_vars

\* C28, amended: below the ceiling the loop ends only on a page without
\* cursor, a page without intervals, a body whose data is not an array, or a
\* failed request; the next request carries the cursor just returned; a
\* fetch that returns holds every interval of the pages it received (a
\* failed request makes it throw instead).
C28_PagesFollowedUnlessBrokenAnswer ==
  [][/\ RequestCarriesCursor
     /\ StoppedBelowCeiling =>
          /\ pager'.last \in {"page", "empty", "empty+cursor", "malformed", "error"}
          /\ pager'.pc = "threw" <=> pager'.last = "error"
          /\ pager'.pc = "returned" => pager'.intervals = pager'.served]_vars

\* Two cursors were followed and the third page, the last, came without one:
\* the fetch returned the intervals of all three pages.
C28_Witness ==
  /\ pager.pc = "returned"
  /\ pager.requests = 3
  /\ pager.asked = 2
  /\ pager.last = "page"
  /\ pager.intervals = 3

\* ------------------------------------------------------------------- C29
\* Index of the first entry of the list with the id.
FirstIndexOf(list, id) ==
  CHOOSE k \in 1..Len(list) :
    list[k].id = id /\ \A j \in 1..(k - 1) : list[j].id # id
IdsOf(list) == { list[k].id : k \in 1..Len(list) }

\* C29: for any list of unified events, the output of mergeAndDedupeEvents
\* holds exactly one entry per distinct id, and that entry is the first
\* occurrence of the id in the input list.
C29_OneEntryPerIdFirstWins ==
  merger.pc = "returned" =>
    /\ IdsOf(merger.output) = IdsOf(merger.input)
    /\ Len(merger.output) = Cardinality(IdsOf(merger.input))
    /\ \A k \in 1..Len(merger.output) :
         merger.output[k] =
           merger.input[FirstIndexOf(merger.input, merger.output[k].id)]

\* An id came twice with different instants, the later entry being the
\* earlier instant, and another id lay between them.
C29_Witness ==
  /\ merger.pc = "returned"
  /\ Len(merger.input) = 3
  /\ merger.input[1].id = merger.input[3].id
  /\ merger.input[2].id # merger.input[1].id
  /\ merger.input[1].occurredAt = toISOString(2)
  /\ merger.input[3].occurredAt = toISOString(1)
  /\ Len(merger.output) = 2

\* ------------------------------------------------------------------- C30
\* Entry a lies at an earlier instant than entry b.
EarlierThan(a, b) ==
  /\ ~getTime(a.occurredAt).nan
  /\ ~getTime(b.occurredAt).nan
  /\ getTime(a.occurredAt).ms < getTime(b.occurredAt).ms

\* C30: for any list of unified events, the output of mergeAndDedupeEvents is
\* ordered ascending by occurredAt: no entry precedes another entry that has
\* an earlier occurredAt.
C30_OutputAscending ==
  merger.pc = "returned" =>
    \A i, j \in 1..Len(merger.output) :
      i < j => ~EarlierThan(merger.output[j], merger.output[i])

\* The order does hold for a list whose occurredAt are all dates.
AscendingWhenAllDatesParse ==
  (/\ merger.pc = "returned"
   /\ \A k \in 1..Len(merger.input) : ~getTime(merger.input[k].occurredAt).nan) =>
    \A i, j \in 1..Len(merger.output) :
      i < j => ~EarlierThan(merger.output[j], merger.output[i])

\* ------------------------------------------------------------------- C31
\* The id the specification gives an interval.
SpeedingIdOf(i) ==
  "speeding:" \o i.assetId \o ":" \o toISOString(i.startTime)
    \o ":" \o toISOString(i.endTime)

\* C31: normalizing the same interval record, in whatever tick and window it
\* is fetched, yields the id speeding:<assetId>:<startTime>:<endTime>, and
\* that id is the key the fetcher looks up in SentEvent and the key the tick
\* writes there: every queued speeding event carries the id of its interval,
\* a fetch with a working lookup returns no interval whose id is in the
\* table, and every row of the table written by a send has such an id.
C31_OneKeyForNormalizerFetcherLedger ==
  /\ \A i \in IntervalCatalog :
       /\ normalizeSpeedingInterval(i).id = SpeedingIdOf(i)
       /\ "speeding:" \o getSpeedingIntervalDedupKey(i) = SpeedingIdOf(i)
  /\ \A t \in TickIds : \A e \in SeqToSet(ticks[t].speedQ) :
       \E i \in SeqToSet(feed.intervals) :
         e.id = SpeedingIdOf(i) /\ e.occurredAt = i.startTime
  /\ (step.phase = "fetch" /\ ~step.readFailed) =>
       \A e \in SeqToSet(step.newToPost) : ~sentEvent[e.id].present
  /\ \A k \in SentKeys \ {StaleKey} :
       sentEvent[k].present =>
         /\ sends[k] >= 1
         /\ \E i \in SeqToSet(feed.intervals) : k = SpeedingIdOf(i)

\* An interval was delivered and its row written; a later tick, whose window
\* still holds the interval, fetched every chunk and did not return it.
C31_Witness ==
  /\ step.phase = "fetch" /\ step.outcome = "none"
  /\ step.chunks = MaxChunks /\ \A k \in 1..MaxChunks : step.chunkOk[k]
  /\ IvMapped \in SeqToSet(feed.intervals)
  /\ sentEvent[SpeedingIdOf(IvMapped)].present
  /\ sentEvent[SpeedingIdOf(IvMapped)].sentAt < now
  /\ \A e \in SeqToSet(step.newToPost) : e.id # SpeedingIdOf(IvMapped)

\* ------------------------------------------------------------------- C32
\* occurredAt is an instant: neither a text that is no date nor absent.
ValidInstant(occurredAt) ==
  ToString(occurredAt) \notin {ToString(NotADate), ToString(undefined)}

\* C32: every unified event produced by normalization, from either source,
\* has an occurredAt that is a valid instant; when the upstream record has no
\* time field, the fetch time is substituted.
C32_OccurredAtAlwaysValid ==
  /\ call.fn \in {"normalizeSafetyEvent", "normalizeSpeedingInterval"} =>
       ValidInstant(call.output.event.occurredAt)
  /\ (call.fn = "normalizeSafetyEvent" /\ call.input.eventTime.kind = "missing") =>
       ToString(call.output.event.occurredAt) = ToString(call.at)
  /\ (call.fn = "normalizeSpeedingInterval"
        /\ ~ValidInstant(call.input.startTime)) =>
       ToString(call.output.event.occurredAt) = ToString(call.at)

\* What holds: a safety event with a date keeps it, one without a time field
\* gets the time of the call.
SafetyTimeKeptOrSubstituted ==
  call.fn = "normalizeSafetyEvent" =>
    /\ call.input.eventTime.kind = "ok" =>
         ToString(call.output.event.occurredAt) = ToString(call.input.eventTime.at)
    /\ call.input.eventTime.kind = "missing" =>
         ToString(call.output.event.occurredAt) = ToString(call.at)

\* ------------------------------------------------------------------- C33
\* The test the specification states, on one lower-cased text: some allowed
\* keyword and no blocked keyword is contained in the literal text or in its
\* form without blanks and underscores.
Contains(text, kw) ==
  \/ textIncludes(text, kw)
  \/ textIncludes(SelectSeq(text, LAMBDA c : c # " " /\ c # "_"),
                  SelectSeq(kw, LAMBDA c : c # " " /\ c # "_"))
KeywordTest(text) ==
  /\ \E kw \in ALLOWED_KEYWORDS : Contains(text, chars(kw))
  /\ ~(\E kw \in BLOCKED_KEYWORDS : Contains(text, chars(kw)))

FiltersDisagree ==
  /\ call.fn = "isRelevant"
  /\ call.output.raw # call.output.unified

\* ------------------------------------------------------------------- C34
\* The first non-empty of forward, inward, generic; "" when all are empty.
FirstOfForwardInwardGeneric(event) ==
  IF event.forward # "" THEN event.forward
  ELSE IF event.inward # "" THEN event.inward
  ELSE event.generic

IsTransportCall(c) == c.op \in {"sendVideo", "sendMessage"}

\* C35: with DRY_RUN_MODE=true the scheduled pass makes no call of the
\* message transport, for any event.
C35_DryRunMakesNoTransportCall ==
  proc.env.DRY_RUN_MODE =>
    /\ \A i \in 1..Len(step.calls) : ~IsTransportCall(step.calls[i])
    /\ \A k \in LogKeys : sends[k] = 0

\* ------------------------------------------------------------------- C36
\* C36: a single scheduled run processes at most MAX_EVENTS_PER_CRON_RUN
\* events: the events a run has before it, all of which its two loops go
\* through, are never more than the configured number.
C36_AtMostMaxEventsPerRun ==
  \A t \in TickIds :
    ticks[t].pc \notin {"idle", "hung"} =>
      Len(ticks[t].safetyQ) + Len(ticks[t].speedQ)
        <= proc.env.MAX_EVENTS_PER_CRON_RUN

\* ------------------------------------------------------------------- C37
\* The outcome of the invocation of the delivery helper a safety step made:
\* "sent" stands for a return with success=true, "failed" and "wait" for a
\* return with success=false, "exception" for no return at all.
HelperStep == step.phase = "send" /\ step.source = "safety"
VideosDelivered ==
  Cardinality({ i \in 1..Len(step.calls) :
                  step.calls[i].op = "sendVideo" /\ step.calls[i].ok })
TextsDelivered ==
  Cardinality({ i \in 1..Len(step.calls) :
                  step.calls[i].op = "sendMessage" /\ step.calls[i].ok })

\* C37: one invocation of sendSafetyAlertWithVideo returns success=true iff
\* exactly one transport call succeeded during it; it never delivers both a
\* video and a text and never fails after a message was delivered.
C37_SuccessIffExactlyOneDelivery ==
  HelperStep =>
    /\ (step.outcome = "sent") <=> (VideosDelivered + TextsDelivered = 1)
    /\ ~(VideosDelivered > 0 /\ TextsDelivered > 0)
    /\ step.outcome # "sent" => VideosDelivered + TextsDelivered = 0

\* The unlinkSync that follows a delivered stream upload threw: the helper
\* went on to its catch block although the video had been sent.
CleanupThrewAfterStream ==
  \E i \in 1..Len(step.calls) :
    /\ step.calls[i].op = "sendVideo" /\ step.calls[i].via = "stream"
    /\ step.calls[i].ok
    /\ (i < Len(step.calls) \/ step.outcome = "exception")

\* What holds: unless that unlinkSync throws, the helper returns success=true
\* iff exactly one transport call succeeded, and no more than one succeeds.
SuccessIffOneDeliveryWhenCleanupWorks ==
  (HelperStep /\ ~CleanupThrewAfterStream) =>
    /\ (step.outcome = "sent") <=> (VideosDelivered + TextsDelivered = 1)
    /\ VideosDelivered + TextsDelivered <= 1

\* A video and a text were delivered for one event by one invocation.
VideoAndTextDelivered ==
  HelperStep /\ VideosDelivered = 1 /\ TextsDelivered = 1

\* ------------------------------------------------------------------- C38
\* A safety step left its event for the next tick: too fresh, or no video yet
\* and text-only not allowed.  Nothing is written for it.
Deferred == step.source = "safety" /\ step.outcome \in {"defer", "wait"}
SafetyEventOf(id) == CHOOSE e \in SafetyCatalog : e.id = id

\* C38: a relevant safety event with a mapped chat that upstream keeps
\* returning cannot stay deferred at every tick until it leaves the lookback
\* window, also when its time field is missing or cannot be parsed: a tick
\* defers an event only while its age is known to be below the giveup
\* threshold, which every event passes long before the window ends.
C38_DeferredOnlyBelowGiveup ==
  Deferred =>
    /\ step.ageKnown
    /\ step.age < SAFETY_MEDIA_MAX_WAIT_MINUTES

\* What holds: an event whose time field is a date or is missing is deferred
\* only below the giveup threshold.
DeferredOnlyBelowGiveupUnlessBadTime ==
  (Deferred /\ SafetyEventOf(step.id).eventTime.kind # "invalid") =>
    /\ step.ageKnown
    /\ step.age < SAFETY_MEDIA_MAX_WAIT_MINUTES

\* The event with the unparseable time is deferred by a second tick in a row,
\* with nothing recorded about it.
BadTimeDeferredAgain ==
  /\ Deferred
  /\ step.id = "e-badtime"
  /\ step.tick = MaxTicks
  /\ ~safetyEventLog["e-badtime"].present
  /\ sends["e-badtime"] = 0

\* ------------------------------------------------------------------- C40
\* The asset id inside a speeding event id.
AssetOfSpeedingId(id) ==
  (CHOOSE i \in IntervalCatalog : "speeding:" \o getSpeedingIntervalDedupKey(i) = id).assetId

\* C40: a speeding event of a vehicle of the fetched roster is routed by the
\* vehicle's display name and not by its raw asset id, also when the asset
\* ids come from SAMSARA_ASSET_IDS.
C40_SpeedingRoutedByDisplayName ==
  (step.source = "speeding" /\ step.phase = "examine" /\ step.routedBy # "") =>
    /\ step.routedBy = VehicleName(AssetOfSpeedingId(step.id))
    /\ step.routedBy # AssetOfSpeedingId(step.id)

\* What holds without the override: the roster fetch of the tick has filled
\* the cache, and the event is routed by the display name.
RoutedByDisplayNameWithoutOverride ==
  (/\ step.source = "speeding" /\ step.phase = "examine" /\ step.routedBy # ""
   /\ proc.env.SAMSARA_ASSET_IDS = <<>>) =>
    step.routedBy = VehicleName(AssetOfSpeedingId(step.id))

\* The interval of the vehicle that has a chat is recorded as having none.
MappedVehicleFoundNoChat ==
  /\ step.source = "speeding" /\ step.phase = "examine"
  /\ step.outcome = "nochat"
  /\ step.routedBy = "V1"
  /\ ChatOfTruck(VehicleName("V1")) # 0

\* ------------------------------------------------------------------- C39
\* sends[id] counts the messages for id delivered to the chat mapped to the
\* event's vehicle.
\* C39: a Delivery Ledger row exists for an event id only if a message for
\* that event was sent to the chat mapped to the event's vehicle, and the
\* scheduled pass skips no event that was not delivered to its mapped chat,
\* whatever test command was typed.
C39_LedgerRowOnlyAfterDeliveryToMappedChat ==
  /\ \A k \in SpeedingIds : sentEvent[k].present => sends[k] >= 1
  /\ (step.source = "speeding" /\ step.phase = "examine"
        /\ step.outcome = "skip" /\ step.id \in SpeedingIds) => sends[step.id] >= 1

\* What holds as long as no command is typed: every row of the ledger written
\* by a tick follows a delivery to the mapped chat.
LedgerRowOnlyAfterDeliveryByTicks ==
  \A k \in SpeedingIds : sentEvent[k].present => sends[k] >= 1

\* The tick skips the interval of Truck 105 as already sent, and the chat of
\* Truck 105 has received nothing.
TickSkipsUndelivered ==
  /\ step.source = "speeding" /\ step.phase = "examine"
  /\ step.outcome = "skip"
  /\ AssetOfSpeedingId(step.id) = "V1"
  /\ sends[step.id] = 0

====
